---------------------------- MODULE Spec2Model ----------------------------
(***************************************************************************)
(* TasPorts public dashboard: the turbidity snapshot engine.               *)
(*                                                                         *)
(* Two iterations of the engine are modelled side by side:                 *)
(*   "dual"     - src/unnamed/part_003: buildTurbidityTiles per window,    *)
(*                renderDualTurbidityTiles joins the 6d and 15d builds;    *)
(*   "snapshot" - src/unnamed/part_002 (second half, from line 365):       *)
(*                buildTurbiditySnapshot, one sequential build.            *)
(*                                                                         *)
(* Strings are sequences of one-character strings, so that splitting,      *)
(* trimming, the timestamp pattern, Number() and Date.parse() are computed *)
(* character by character.  Numbers are fixed point, in millionths (Micro).*)
(* Instants are milliseconds relative to 2025-01-01T00:00:00Z (TLC's       *)
(* integers are 32 bit, the differences the code computes do not depend    *)
(* on the origin).                                                         *)
(***************************************************************************)
EXTENDS Integers, Sequences, FiniteSets, TLC

VARIABLES
    program,    \* which iteration of app.js is loaded: "dual" or "snapshot"
    srcLines,   \* feed pipeline: the lines the remote feed serves (environment)
    text,       \* feed pipeline: the response body, as characters
    latest,     \* feed pipeline: what the Feed Parser returned
    result,     \* feed pipeline: the sensor status recorded for the feed
    evalAt,     \* feed pipeline: the Date.now() the status was evaluated at
    sensor,     \* sensor pipeline: one sensor of one station in one window, the
                \* address resolved for it and the class of its tile
    severity,   \* station pipeline: the readings of one station's sensors and
                \* the overall severity each iteration derives from them
    page,       \* currentPage(): "index", "charts" or "calibration"
    pc,         \* main(): "load", "boot", "idle", "done" or "failed"
    stations,   \* the station configuration main() loaded
    builds,     \* build number -> the build's promise state and its loops
    nextBuild,  \* the number the next build started gets (1 is the boot build)
    timer,      \* the 5-minute setInterval timers created
    loads,      \* the number of loadStations() calls
    topMsg,     \* how often "Failed to load configuration" was written
    requests,   \* feed requests issued: <<build, window, station, level>> -> count
    served,     \* request -> the outcome it ended with (environment)
    el6,        \* #turbidity-tiles-6d
    el15,       \* #turbidity-tiles-15d
    popups,     \* the popups bound to the map markers
    tilesEl,    \* #turbidity-tiles (snapshot iteration)
    mapView     \* the map built by initMap(stations, snapshot) (snapshot iteration)

feedVars == <<srcLines, text, latest, result, evalAt, sensor, severity>>

mainVars == <<page, pc, stations, builds, nextBuild, timer, loads, topMsg>>

netVars == <<requests, served>>

domVars == <<el6, el15, popups, tilesEl, mapView>>

vars == <<program, feedVars, mainVars, netVars, domVars>>

Programs == {"dual", "snapshot"}

-----------------------------------------------------------------------------
(* Characters and strings *)

Digits == {"0", "1", "2", "3", "4", "5", "6", "7", "8", "9"}

DigitVal(c) ==
    CASE c = "0" -> 0 [] c = "1" -> 1 [] c = "2" -> 2 [] c = "3" -> 3
      [] c = "4" -> 4 [] c = "5" -> 5 [] c = "6" -> 6 [] c = "7" -> 7
      [] c = "8" -> 8 [] c = "9" -> 9

\* String.prototype.trim(): white space and line terminators
WhiteSpace == {" ", "\t", "\r", "\n"}

Trim(s) ==
    IF \A i \in 1..Len(s) : s[i] \in WhiteSpace THEN <<>>
    ELSE SubSeq(s,
                CHOOSE i \in 1..Len(s) :
                    s[i] \notin WhiteSpace /\ \A j \in 1..(i - 1) : s[j] \in WhiteSpace,
                CHOOSE i \in 1..Len(s) :
                    s[i] \notin WhiteSpace /\ \A j \in (i + 1)..Len(s) : s[j] \in WhiteSpace)

\* String.prototype.split(sep) for a one-character separator
SplitOn(s, sep) ==
    LET at == {i \in 1..Len(s) : s[i] = sep}
        \* the k-th separator's position; 0 before the first, Len(s) + 1 after the last
        pos(k) == IF k = 0 THEN 0
                  ELSE IF k > Cardinality(at) THEN Len(s) + 1
                  ELSE CHOOSE i \in at : Cardinality({j \in at : j < i}) = k - 1
    IN [k \in 1..(Cardinality(at) + 1) |-> SubSeq(s, pos(k - 1) + 1, pos(k) - 1)]

\* text.split(/\r?\n/): a line ends at "\n"; one "\r" right before it
\* belongs to the separator
DropCr(s) ==
    IF s # <<>> /\ s[Len(s)] = "\r" THEN SubSeq(s, 1, Len(s) - 1) ELSE s

RECURSIVE MapDropCrButLast(_)
MapDropCrButLast(ls) ==
    IF Len(ls) <= 1 THEN ls
    ELSE <<DropCr(Head(ls))>> \o MapDropCrButLast(Tail(ls))

SplitLines(s) == MapDropCrButLast(SplitOn(s, "\n"))

RECURSIVE MapTrim(_)
MapTrim(ls) ==
    IF ls = <<>> THEN <<>> ELSE <<Trim(Head(ls))>> \o MapTrim(Tail(ls))

\* .filter(Boolean) on strings: the empty string is falsy
RECURSIVE FilterNonEmpty(_)
FilterNonEmpty(ls) ==
    IF ls = <<>> THEN <<>>
    ELSE IF Head(ls) = <<>> THEN FilterNonEmpty(Tail(ls))
    ELSE <<Head(ls)>> \o FilterNonEmpty(Tail(ls))

\* /^\d{4}-\d{2}-\d{2}T/.test(l)
IsDataLine(l) ==
    /\ Len(l) >= 11
    /\ \A i \in {1, 2, 3, 4, 6, 7, 9, 10} : l[i] \in Digits
    /\ l[5] = "-"
    /\ l[8] = "-"
    /\ l[11] = "T"

RECURSIVE FilterDataLines(_)
FilterDataLines(ls) ==
    IF ls = <<>> THEN <<>>
    ELSE IF IsDataLine(Head(ls)) THEN <<Head(ls)>> \o FilterDataLines(Tail(ls))
    ELSE FilterDataLines(Tail(ls))

-----------------------------------------------------------------------------
(* Number(string), on the decimal literals and "Infinity"; the result is   *)
(* [fin |-> TRUE, v |-> millionths] or NotFinite (NaN and the infinities,  *)
(* which Number.isFinite rejects alike).                                   *)

Micro == 1000 * 1000

NotFinite == [fin |-> FALSE, v |-> 0]

Finite(v) == [fin |-> TRUE, v |-> v]

InfinityChars ==
    <<"I", "n", "f", "i", "n", "i", "t", "y">>

RECURSIVE DigitsValue(_, _)
DigitsValue(s, acc) ==
    IF s = <<>> THEN acc ELSE DigitsValue(Tail(s), acc * 10 + DigitVal(Head(s)))

\* the fraction digits as millionths (digits past the sixth are dropped)
RECURSIVE FractionValue(_, _)
FractionValue(s, unit) ==
    IF s = <<>> \/ unit = 0 THEN 0
    ELSE DigitVal(Head(s)) * unit + FractionValue(Tail(s), unit \div 10)

AllDigits(s) == \A i \in 1..Len(s) : s[i] \in Digits

\* StrUnsignedDecimalLiteral without exponent: digits, digits. , digits.digits , .digits
DecimalOf(u) ==
    LET parts == SplitOn(u, ".") IN
    IF Len(parts) = 1
    THEN IF u # <<>> /\ AllDigits(u) THEN Finite(DigitsValue(u, 0) * Micro) ELSE NotFinite
    ELSE IF Len(parts) = 2
    THEN IF /\ AllDigits(parts[1])
            /\ AllDigits(parts[2])
            /\ Len(parts[1]) + Len(parts[2]) > 0
         THEN Finite(DigitsValue(parts[1], 0) * Micro + FractionValue(parts[2], Micro \div 10))
         ELSE NotFinite
    ELSE NotFinite

Negate(n) == IF n.fin THEN Finite(0 - n.v) ELSE n

NumberOf(s) ==
    LET t == Trim(s) IN
    IF t = <<>> THEN Finite(0)     \* Number("") and Number("  ") are 0
    ELSE
        LET signed == Head(t) \in {"+", "-"}
            u == IF signed THEN Tail(t) ELSE t
            n == IF u = InfinityChars THEN NotFinite ELSE DecimalOf(u)
        IN IF Head(t) = "-" THEN Negate(n) ELSE n

-----------------------------------------------------------------------------
(* Date.parse(string) on the ISO forms YYYY-MM-DDTHH:MM:SSZ and            *)
(* YYYY-MM-DDTHH:MM:SS.sssZ; any other string of the model is NaN.         *)

NaN == [ok |-> FALSE, ms |-> 0]

Instant(ms) == [ok |-> TRUE, ms |-> ms]

MsPerDay == 24 * 60 * 60 * 1000

Num2(s, i) == DigitVal(s[i]) * 10 + DigitVal(s[i + 1])

Num3(s, i) == DigitVal(s[i]) * 100 + DigitVal(s[i + 1]) * 10 + DigitVal(s[i + 2])

Num4(s, i) == Num2(s, i) * 100 + Num2(s, i + 2)

IsLeap(y) == (y % 4 = 0 /\ y % 100 # 0) \/ y % 400 = 0

DaysInMonth(y, m) ==
    IF m = 2 THEN (IF IsLeap(y) THEN 29 ELSE 28)
    ELSE IF m \in {4, 6, 9, 11} THEN 30 ELSE 31

\* days from 1970-01-01 to y-m-d (proleptic Gregorian), y >= 1
DaysFromCivil(y, m, d) ==
    LET yy == IF m <= 2 THEN y - 1 ELSE y
        era == yy \div 400
        yoe == yy - era * 400
        mp == IF m > 2 THEN m - 3 ELSE m + 9
        doy == (153 * mp + 2) \div 5 + d - 1
        doe == yoe * 365 + yoe \div 4 - yoe \div 100 + doy
    IN era * 146097 + doe - 719468

\* 2025-01-01, the origin of the model's instants
OriginDays == DaysFromCivil(2025, 1, 1)

IsoShape(s) ==
    /\ Len(s) \in {20, 24}
    /\ IsDataLine(s)
    /\ \A i \in {12, 13, 15, 16, 18, 19} : s[i] \in Digits
    /\ s[14] = ":"
    /\ s[17] = ":"
    /\ s[Len(s)] = "Z"
    /\ Len(s) = 24 => (s[20] = "." /\ \A i \in {21, 22, 23} : s[i] \in Digits)

DateParse(s) ==
    IF ~IsoShape(s) THEN NaN
    ELSE
        LET y == Num4(s, 1)
            m == Num2(s, 6)
            d == Num2(s, 9)
            hh == Num2(s, 12)
            mm == Num2(s, 15)
            ss == Num2(s, 18)
            ms == IF Len(s) = 24 THEN Num3(s, 21) ELSE 0
        IN IF \/ y < 1 \/ m < 1 \/ m > 12 \/ d < 1 \/ d > DaysInMonth(y, m)
              \/ hh > 23 \/ mm > 59 \/ ss > 59
           THEN NaN
           ELSE Instant((DaysFromCivil(y, m, d) - OriginDays) * MsPerDay
                        + hh * 3600000 + mm * 60000 + ss * 1000 + ms)

-----------------------------------------------------------------------------
(* Feed Parser *)

\* the JavaScript null a parser returns for "no reading"
Null == [null |-> TRUE]

\* the characters of data lines in the order of their code units
CodeUnitOrder ==
    <<",", "-", ".", "0", "1", "2", "3", "4", "5", "6", "7", "8", "9", ":", "T", "Z",
      "a", "b", "c", "k", "o">>

\* a < b as JavaScript compares strings
LexLess(a, b) ==
    LET rank(c) == CHOOSE i \in 1..Len(CodeUnitOrder) : CodeUnitOrder[i] = c
    IN \E i \in 1..Len(b) :
          /\ i <= Len(a) + 1
          /\ \A j \in 1..(i - 1) : a[j] = b[j]
          /\ (i > Len(a) \/ rank(a[i]) < rank(b[i]))

\* parseEagleCsvText taking the first data line instead of the last
parseEagleCsvText_first(t) ==
    LET lines == FilterNonEmpty(MapTrim(SplitLines(t)))
        dataLines == FilterDataLines(lines)
    IN IF Len(dataLines) = 0 THEN Null
       ELSE
           LET last == dataLines[1]
               parts == SplitOn(last, ",")
           IN IF Len(parts) < 2 THEN Null
              ELSE
                  LET ts == parts[1]
                      value == NumberOf(parts[2])
                  IN IF ~value.fin THEN Null
                     ELSE [timestamp |-> ts, value |-> value.v]

\* part_002: parseEagleCsvText(text)
parseEagleCsvText(t) ==
    LET lines == FilterNonEmpty(MapTrim(SplitLines(t)))
        dataLines == FilterDataLines(lines)
    IN IF Len(dataLines) = 0 THEN Null
       ELSE
           LET last == dataLines[Len(dataLines)]
               parts == SplitOn(last, ",")
           IN IF Len(parts) < 2 THEN Null
              ELSE
                  LET ts == parts[1]
                      value == NumberOf(parts[2])
                  IN IF ~value.fin THEN Null
                     ELSE [timestamp |-> ts, value |-> value.v]

\* part_003: the parsing half of fetchLatestFromEagleDataUrl (after resp.text())
latestFromText(t) ==
    LET lines == FilterNonEmpty(MapTrim(SplitLines(t)))
        dataLines == FilterDataLines(lines)
    IN IF Len(dataLines) = 0 THEN Null
       ELSE
           LET last == dataLines[Len(dataLines)]
               parts == SplitOn(last, ",")
           IN IF Len(parts) < 2 THEN Null
              ELSE
                  LET ts == parts[1]
                      value == NumberOf(parts[2])
                  IN IF ~value.fin THEN Null
                     ELSE [timestamp |-> ts, value |-> value.v]

-----------------------------------------------------------------------------
(* Staleness Evaluator; now is the value Date.now() returns at the call *)

STALE_HOURS == 24

MsPerHour == 1000 * 60 * 60

\* isStale with the 24 h boundary inclusive
isStaleDual_inclusive(isoTs, now) ==
    IF isoTs = <<>> THEN FALSE
    ELSE
        LET t == DateParse(isoTs) IN
        IF ~t.ok THEN FALSE
        ELSE now - t.ms >= 24 * 60 * 60 * 1000

\* part_003: isStale(isoTs)
isStaleDual(isoTs, now) ==
    IF isoTs = <<>> THEN FALSE
    ELSE
        LET t == DateParse(isoTs) IN
        IF ~t.ok THEN FALSE
        ELSE now - t.ms > 24 * 60 * 60 * 1000

\* part_002: hoursSince(tsIso), as the fraction num / den of hours, or Infinity
hoursSince(tsIso, now) ==
    LET t == DateParse(tsIso) IN
    IF ~t.ok THEN [inf |-> TRUE, num |-> 0, den |-> 1]
    ELSE [inf |-> FALSE, num |-> now - t.ms, den |-> MsPerHour]

\* part_002: isStale(tsIso): hoursSince(tsIso) > STALE_HOURS
isStaleSnap(tsIso, now) ==
    LET h == hoursSince(tsIso, now) IN
    h.inf \/ h.num > STALE_HOURS * h.den

-----------------------------------------------------------------------------
(* The sensor status a response body leads to *)

\* part_003: buildTurbidityTiles, the outcome fields of the tile pushed once
\* fetchLatestFromEagleDataUrl has returned
tileOutcome(lt, now) ==
    IF lt = Null
    THEN [error |-> TRUE, reason |-> "no data lines found"]
    ELSE [error |-> FALSE, value |-> lt.value, timestamp |-> lt.timestamp,
          stale |-> isStaleDual(lt.timestamp, now)]

\* part_002: fetchLatestFromEagleDataUrl, from `const parsed` on
snapOutcome(parsed, now) ==
    IF parsed = Null
    THEN [ok |-> FALSE, reason |-> "No data returned"]
    ELSE [ok |-> TRUE, timestamp |-> parsed.timestamp, value |-> parsed.value,
          stale |-> isStaleSnap(parsed.timestamp, now)]

-----------------------------------------------------------------------------
(* The remote feed (environment): newline-delimited text whose data lines  *)
(* start with an ISO-8601 timestamp followed by a comma-separated value.   *)

TsJan1 ==
    <<"2", "0", "2", "5", "-", "0", "1", "-", "0", "1", "T", "0", "0", ":", "0", "0", ":", "0", "0", ".", "0", "0", "0", "Z">>

TsJan2 ==
    <<"2", "0", "2", "5", "-", "0", "1", "-", "0", "2", "T", "0", "0", ":", "0", "0", ":", "0", "0", ".", "0", "0", "0", "Z">>

TsJan1Noon ==
    <<"2", "0", "2", "5", "-", "0", "1", "-", "0", "1", "T", "1", "2", ":", "0", "0", ":", "0", "0", "Z">>

\* matches the line pattern, is no date: month 13, day 45
TsBad ==
    <<"2", "0", "2", "5", "-", "1", "3", "-", "4", "5", "T", "9", "9", ":", "9", "9", ":", "9", "9", "Z">>

NoValue == 0 - 1

NoInstant == 0 - 1

\* name -> the line as served (raw) and what it carries: whether it is a data
\* line (data), its timestamp field (ts) and the instant that names (at, ms
\* from the origin), whether its second field is a number (numeric) and that
\* number in millionths (val)
FeedLine ==
    [ jan1    |-> [raw |-> TsJan1 \o <<",", "3", ".", "4", "\r">>,
                   data |-> TRUE, ts |-> TsJan1, at |-> 0, numeric |-> TRUE, val |-> 3400000],
      jan2    |-> [raw |-> TsJan2 \o <<",", "3", ".", "6">>,
                   data |-> TRUE, ts |-> TsJan2, at |-> 24 * 3600000, numeric |-> TRUE, val |-> 3600000],
      noon    |-> [raw |-> <<" ", "\t">> \o TsJan1Noon \o <<",", "1", "0", ".", "2", "5", ",", "o", "k", " ">>,
                   data |-> TRUE, ts |-> TsJan1Noon, at |-> 12 * 3600000, numeric |-> TRUE, val |-> 10250000],
      badts   |-> [raw |-> TsBad \o <<",", "5", ".", "0">>,
                   data |-> TRUE, ts |-> TsBad, at |-> NoInstant, numeric |-> TRUE, val |-> 5000000],
      nocomma |-> [raw |-> TsJan2,
                   data |-> TRUE, ts |-> TsJan2, at |-> 24 * 3600000, numeric |-> FALSE, val |-> NoValue],
      notnum  |-> [raw |-> TsJan2 \o <<",", "a", "b", "c">>,
                   data |-> TRUE, ts |-> TsJan2, at |-> 24 * 3600000, numeric |-> FALSE, val |-> NoValue],
      empty   |-> [raw |-> TsJan2 \o <<",">>,
                   data |-> TRUE, ts |-> TsJan2, at |-> 24 * 3600000, numeric |-> FALSE, val |-> NoValue],
      head    |-> [raw |-> <<"T", "i", "m", "e", ",", "V", "a", "l", "u", "e">>,
                   data |-> FALSE, ts |-> <<>>, at |-> NoInstant, numeric |-> FALSE, val |-> NoValue],
      blank   |-> [raw |-> <<>>,
                   data |-> FALSE, ts |-> <<>>, at |-> NoInstant, numeric |-> FALSE, val |-> NoValue],
      jan1lf  |-> [raw |-> TsJan1 \o <<",", "3", ".", "4">>,
                   data |-> TRUE, ts |-> TsJan1, at |-> 0, numeric |-> TRUE, val |-> 3400000],
      v3_9    |-> [raw |-> TsJan2 \o <<",", "3", ".", "9">>,
                   data |-> TRUE, ts |-> TsJan2, at |-> 24 * 3600000, numeric |-> TRUE, val |-> 3900000],
      v4_0    |-> [raw |-> TsJan2 \o <<",", "4", ".", "0">>,
                   data |-> TRUE, ts |-> TsJan2, at |-> 24 * 3600000, numeric |-> TRUE, val |-> 4000000],
      v4_329999 |-> [raw |-> TsJan2 \o <<",", "4", ".", "3", "2", "9", "9", "9", "9">>,
                   data |-> TRUE, ts |-> TsJan2, at |-> 24 * 3600000, numeric |-> TRUE, val |-> 4329999],
      v4_33   |-> [raw |-> TsJan2 \o <<",", "4", ".", "3", "3">>,
                   data |-> TRUE, ts |-> TsJan2, at |-> 24 * 3600000, numeric |-> TRUE, val |-> 4330000],
      v3_0    |-> [raw |-> TsJan2 \o <<",", "3", ".", "0">>,
                   data |-> TRUE, ts |-> TsJan2, at |-> 24 * 3600000, numeric |-> TRUE, val |-> 3000000],
      v3_3    |-> [raw |-> TsJan2 \o <<",", "3", ".", "3">>,
                   data |-> TRUE, ts |-> TsJan2, at |-> 24 * 3600000, numeric |-> TRUE, val |-> 3300000],
      v4_9    |-> [raw |-> TsJan2 \o <<",", "4", ".", "9">>,
                   data |-> TRUE, ts |-> TsJan2, at |-> 24 * 3600000, numeric |-> TRUE, val |-> 4900000],
      v8_5    |-> [raw |-> TsJan2 \o <<",", "8", ".", "5">>,
                   data |-> TRUE, ts |-> TsJan2, at |-> 24 * 3600000, numeric |-> TRUE, val |-> 8500000],
      v15_0   |-> [raw |-> TsJan2 \o <<",", "1", "5", ".", "0">>,
                   data |-> TRUE, ts |-> TsJan2, at |-> 24 * 3600000, numeric |-> TRUE, val |-> 15000000],
      v16_5   |-> [raw |-> TsJan2 \o <<",", "1", "6", ".", "5">>,
                   data |-> TRUE, ts |-> TsJan2, at |-> 24 * 3600000, numeric |-> TRUE, val |-> 16500000],
      v100    |-> [raw |-> TsJan2 \o <<",", "1", "0", "0">>,
                   data |-> TRUE, ts |-> TsJan2, at |-> 24 * 3600000, numeric |-> TRUE, val |-> 100000000],
      below0  |-> [raw |-> TsJan2 \o <<",", "-", "0", ".", "5">>,
                   data |-> TRUE, ts |-> TsJan2, at |-> 24 * 3600000, numeric |-> TRUE, val |-> 0 - 500000] ]

\* the lines served to the sensor pipeline only: jan1 without the carriage
\* return, and one value each around the trigger levels
ValueLines ==
    {"jan1lf", "v3_9", "v4_0", "v4_329999", "v4_33", "v3_0", "v3_3", "v4_9", "v8_5", "v15_0",
     "v16_5", "v100", "below0"}

\* the lines the bodies of the feed pipeline are made of
LineNames == DOMAIN FeedLine \ ValueLines

\* the most lines a feed body of the feed pipeline has
MaxLines == 3

RECURSIVE JoinLines(_)
JoinLines(names) ==
    IF names = <<>> THEN <<>>
    ELSE IF Len(names) = 1 THEN FeedLine[names[1]].raw
    ELSE FeedLine[names[1]].raw \o <<"\n">> \o JoinLines(Tail(names))

FeedBodies == UNION {[1..n -> LineNames] : n \in 0..MaxLines}

\* the instants Date.now() returns: one ms before, at and after 24 h past
\* TsJan1, and 2025-01-02T00:10:00Z
Nows == {MsPerDay - 1, MsPerDay, MsPerDay + 1, MsPerDay + 600000}

-----------------------------------------------------------------------------
(* A parser result or sensor status not computed yet *)

Pending == [pending |-> TRUE]

\* the sensor pipeline and the station pipeline when they are not in use
NoSensor == [step |-> "none"]

NoSeverity == [step |-> "none"]

-----------------------------------------------------------------------------
(* What a served feed body carries (from the feed's own lines, not from    *)
(* the parser)                                                             *)

DataIdx(names) == {i \in 1..Len(names) : FeedLine[names[i]].data}

HasDataLine(names) == DataIdx(names) # {}

LastDataLine(names) ==
    FeedLine[names[CHOOSE i \in DataIdx(names) : \A j \in DataIdx(names) : j <= i]]

FirstDataLine(names) ==
    FeedLine[names[CHOOSE i \in DataIdx(names) : \A j \in DataIdx(names) : i <= j]]

IsOkStatus(r) == IF program = "dual" THEN ~r.error ELSE r.ok

IsNoDataStatus(r) ==
    IF program = "dual"
    THEN r.error /\ r.reason = "no data lines found"
    ELSE ~r.ok /\ r.reason = "No data returned"

\* C7: for every feed text with at least one line matching the timestamp
\* pattern, the Feed Parser returns the reading of the last such line (its
\* value, when that line carries one), not the first line's and not the
\* maximum.
C7_LastLineValue ==
    (latest # Pending /\ HasDataLine(srcLines) /\ LastDataLine(srcLines).numeric)
        => /\ latest # Null
           /\ latest.value = LastDataLine(srcLines).val

\* a parsed body whose last data line is neither the first one nor the one
\* with the largest value
C7_Witness ==
    /\ latest # Pending
    /\ latest # Null
    /\ HasDataLine(srcLines)
    /\ LastDataLine(srcLines).numeric
    /\ FirstDataLine(srcLines).numeric
    /\ FirstDataLine(srcLines).val # LastDataLine(srcLines).val
    /\ \E i \in DataIdx(srcLines) : FeedLine[srcLines[i]].val > LastDataLine(srcLines).val
    /\ latest.value = LastDataLine(srcLines).val

\* C8: the Feed Parser returns "no reading" when no line matches the
\* timestamp pattern and when the last matching line has fewer than two
\* fields or a second field that is not a finite number, without falling
\* back to an earlier valid line; the builder then records Error("no data").
C8_NoReading ==
    (latest # Pending /\ (~HasDataLine(srcLines) \/ ~LastDataLine(srcLines).numeric))
        => /\ latest = Null
           /\ result # Pending => IsNoDataStatus(result)

\* C8 apart from the empty second field: Number("") is 0, so a last line
\* "<timestamp>," is returned as a reading of value 0
C8_ExceptEmptyField ==
    (latest # Pending /\ (~HasDataLine(srcLines) \/ ~LastDataLine(srcLines).numeric))
        => \/ (latest = Null /\ (result # Pending => IsNoDataStatus(result)))
           \/ (/\ HasDataLine(srcLines)
               /\ LastDataLine(srcLines) = FeedLine.empty
               /\ latest # Null
               /\ latest.value = 0)

\* C9: a reading timestamped more than 24 hours before the evaluation
\* instant is stale; one timestamped exactly 24 hours before it, or less,
\* is not.
C9_StaleAfter24h ==
    (/\ result # Pending
     /\ HasDataLine(srcLines)
     /\ LastDataLine(srcLines).numeric
     /\ LastDataLine(srcLines).at # NoInstant)
        => /\ IsOkStatus(result)
           /\ result.stale <=> (evalAt - LastDataLine(srcLines).at > 24 * 3600000)

\* a reading evaluated exactly 24 hours after its timestamp
C9_Witness ==
    /\ result # Pending
    /\ HasDataLine(srcLines)
    /\ LastDataLine(srcLines).numeric
    /\ LastDataLine(srcLines).at # NoInstant
    /\ evalAt - LastDataLine(srcLines).at = 24 * 3600000
    /\ IsOkStatus(result)
    /\ ~result.stale

\* C10: a reading whose timestamp cannot be parsed to an instant is treated
\* as stale, never as a parse error: the sensor status is Ok with stale set.
C10_UnparseableIsStale ==
    (/\ result # Pending
     /\ HasDataLine(srcLines)
     /\ LastDataLine(srcLines).numeric
     /\ LastDataLine(srcLines).at = NoInstant)
        => /\ IsOkStatus(result)
           /\ result.stale

\* C10 as the two iterations implement it: never a parse error, stale in
\* the snapshot iteration and not stale in the dual-window iteration
C10_PerProgram ==
    (/\ result # Pending
     /\ HasDataLine(srcLines)
     /\ LastDataLine(srcLines).numeric
     /\ LastDataLine(srcLines).at = NoInstant)
        => /\ IsOkStatus(result)
           /\ result.stale <=> (program = "snapshot")

-----------------------------------------------------------------------------
(* Station configuration (stations.json) *)

EaglePrefix ==
    <<"h", "t", "t", "p", "s", ":", "/", "/", "p", "u", "b", "l", "i", "c", ".", "e", "a", "g", "l", "e", ".", "i", "o", "/", "p", "u", "b", "l", "i", "c", "/", "d", "a", "t", "a", "/">>

\* the feed addresses of the configurations; top15d is written in mixed
\* case, foreign lies outside the fixed origin
Url ==
    [top6d |-> EaglePrefix \o <<"t", "6">>,
     top15d |-> <<"h", "t", "t", "p", "s", ":", "/", "/", "P", "u", "b", "l", "i", "c", ".", "E", "a", "g", "l", "e", ".", "i", "o", "/", "p", "u", "b", "l", "i", "c", "/", "d", "a", "t", "a", "/", "T", "1", "5">>,
     top |-> EaglePrefix \o <<"t", "0">>,
     bottom |-> EaglePrefix \o <<"b", "0">>,
     foreign |-> <<"h", "t", "t", "p", "s", ":", "/", "/", "e", "x", "a", "m", "p", "l", "e", ".", "o", "r", "g", "/", "p", "u", "b", "l", "i", "c", "/", "d", "a", "t", "a", "/", "x", "1">>]

\* ConfigA: seagrass lists bottom before top, has one feed per window on top
\* and a foreign address on bottom; forth has no sensor list and no feed.
\* ConfigB: grayling has the windowless key on both sensors; estuary has an
\* empty sensor list.  The third configuration has no station.
ConfigA ==
    << [id |-> "seagrass", name |-> "Seagrass", sensors |-> <<"bottom", "top">>,
        values |-> [top |-> [turbidity_6d |-> Url.top6d, turbidity_15d |-> Url.top15d],
                    bottom |-> [turbidity |-> Url.foreign]]],
       [id |-> "forth", name |-> "Forth", values |-> <<>>] >>

ConfigB ==
    << [id |-> "grayling", name |-> "Grayling", sensors |-> <<"top", "bottom">>,
        values |-> [top |-> [turbidity |-> Url.top],
                    bottom |-> [turbidity |-> Url.bottom]]],
       [id |-> "estuary", name |-> "Estuary", sensors |-> <<>>, values |-> <<>>] >>

Configs == {ConfigA, ConfigB, <<>>}

-----------------------------------------------------------------------------
(* Station Feed Resolver and display order (part_003) *)

TILE_SITE_ORDER == <<"forth", "offshore", "estuary", "scallops", "grayling", "seagrass">>

SENSOR_ORDER == <<"top", "bottom">>

InSeq(seq, x) == \E i \in 1..Len(seq) : seq[i] = x

\* TILE_SITE_ORDER.indexOf(id), 999 when absent; station ids are lowercase
\* keys, which toLowerCase() leaves as they are
orderIndex(id) ==
    IF InSeq(TILE_SITE_ORDER, id)
    THEN (CHOOSE i \in 1..Len(TILE_SITE_ORDER) : TILE_SITE_ORDER[i] = id) - 1
    ELSE 999

\* stations.slice().sort(...): the sort is stable, so a station goes behind
\* the stations that do not come after it
RECURSIVE sortedStations(_)
sortedStations(ss) ==
    IF ss = <<>> THEN <<>>
    ELSE LET sorted == sortedStations(SubSeq(ss, 1, Len(ss) - 1))
             s == ss[Len(ss)]
             k == Cardinality({i \in 1..Len(sorted) :
                                 orderIndex(sorted[i].id) <= orderIndex(s.id)})
         IN SubSeq(sorted, 1, k) \o <<s>> \o SubSeq(sorted, k + 1, Len(sorted))

\* sensorsRaw defaulting to both positions
sensorsOrdered_both(s) ==
    LET sensorsRaw == IF "sensors" \in DOMAIN s /\ Len(s.sensors) > 0
                      THEN s.sensors ELSE <<"top", "bottom">>
    IN SelectSeq(SENSOR_ORDER, LAMBDA x : InSeq(sensorsRaw, x))
       \o SelectSeq(sensorsRaw, LAMBDA x : ~InSeq(SENSOR_ORDER, x))

\* sensorsRaw and sensors of buildTurbidityTiles; a station record without
\* the key stands for every s.sensors that Array.isArray rejects
sensorsOrdered(s) ==
    LET sensorsRaw == IF "sensors" \in DOMAIN s /\ Len(s.sensors) > 0
                      THEN s.sensors ELSE <<"top">>
    IN SelectSeq(SENSOR_ORDER, LAMBDA x : InSeq(sensorsRaw, x))
       \o SelectSeq(sensorsRaw, LAMBDA x : ~InSeq(SENSOR_ORDER, x))

\* a || b || ...: the first key that holds a non-empty address; a missing
\* key is undefined, falsy like the empty string
RECURSIVE FirstTruthy(_, _)
FirstTruthy(v, keys) ==
    IF keys = <<>> THEN <<>>
    ELSE IF Head(keys) \in DOMAIN v /\ v[Head(keys)] # <<>> THEN v[Head(keys)]
    ELSE FirstTruthy(v, Tail(keys))

\* getTurbidityUrl trying the windowless key before the 15-day aliases
getTurbidityUrl_fallbackFirst(station, level, windowKey) ==
    LET v == IF "values" \in DOMAIN station /\ level \in DOMAIN station.values
             THEN station.values[level] ELSE <<>>
    IN IF windowKey = "6d"
       THEN FirstTruthy(v, <<"turbidity_6d", "turbidity6", "turbidity_6",
                             "turbidity6d", "turbidity_6day", "turbidity6day">>)
       ELSE FirstTruthy(v, <<"turbidity", "turbidity_15d", "turbidity15", "turbidity_15",
                             "turbidity15d", "turbidity_15day", "turbidity15day">>)

\* getTurbidityUrl with the windowless key as the last resort of both windows
getTurbidityUrl_windowless(station, level, windowKey) ==
    LET v == IF "values" \in DOMAIN station /\ level \in DOMAIN station.values
             THEN station.values[level] ELSE <<>>
    IN IF windowKey = "6d"
       THEN FirstTruthy(v, <<"turbidity_6d", "turbidity6", "turbidity_6",
                             "turbidity6d", "turbidity_6day", "turbidity6day",
                             "turbidity">>)
       ELSE FirstTruthy(v, <<"turbidity_15d", "turbidity15", "turbidity_15",
                             "turbidity15d", "turbidity_15day", "turbidity15day",
                             "turbidity">>)

getTurbidityUrl(station, level, windowKey) ==
    LET v == IF "values" \in DOMAIN station /\ level \in DOMAIN station.values
             THEN station.values[level] ELSE <<>>
    IN IF windowKey = "6d"
       THEN FirstTruthy(v, <<"turbidity_6d", "turbidity6", "turbidity_6",
                             "turbidity6d", "turbidity_6day", "turbidity6day">>)
       ELSE FirstTruthy(v, <<"turbidity_15d", "turbidity15", "turbidity_15",
                             "turbidity15d", "turbidity_15day", "turbidity15day",
                             "turbidity">>)

\* /^https:\/\/public\.eagle\.io\/public\/data\/[a-z0-9]+/i.test(dataUrl)
UrlOk(u) ==
    LET upper == <<"A", "B", "C", "D", "E", "F", "G", "H", "I", "J", "K", "L", "M", "N", "O", "P", "Q", "R", "S", "T", "U", "V", "W", "X", "Y", "Z">>
        lower == <<"a", "b", "c", "d", "e", "f", "g", "h", "i", "j", "k", "l", "m", "n", "o", "p", "q", "r", "s", "t", "u", "v", "w", "x", "y", "z">>
        \* c matches the lowercase pattern character d
        eqi(c, d) == c = d \/ \E k \in 1..26 : upper[k] = c /\ lower[k] = d
    IN /\ Len(u) > Len(EaglePrefix)
       /\ \A i \in 1..Len(EaglePrefix) : eqi(u[i], EaglePrefix[i])
       /\ \/ u[Len(EaglePrefix) + 1] \in Digits
          \/ \E k \in 1..26 : u[Len(EaglePrefix) + 1] \in {upper[k], lower[k]}

-----------------------------------------------------------------------------
(* How a feed request ends (environment) *)

\* bodies the feeds serve during a build: nothing, a reading a day and ten
\* minutes old, a header and a reading ten minutes old
BuildBodies == {<<>>, <<"jan1">>, <<"head", "jan2">>}

\* Date.now() while a build evaluates its readings
BuildNow == MsPerDay + 600000

\* network: fetch() rejects; http: a 500 response; body: the response arrives
\* and reading its body fails; text: the body is read
Outcomes ==
    {[kind |-> k, body |-> <<>>] : k \in {"network", "http", "body"}}
    \cup {[kind |-> "text", body |-> b] : b \in BuildBodies}

NoResponse == [kind |-> "none", body |-> <<>>]

-----------------------------------------------------------------------------
(* Tile Builder (part_003) *)

\* fetchLatestFromEagleDataUrl(dataUrl), given how the request ends; the
\* messages are those of the thrown errors, without the address
fetchLatestDual(dataUrl, outcome) ==
    IF dataUrl = <<>> THEN [threw |-> TRUE, message |-> "Missing data URL"]
    ELSE IF ~UrlOk(dataUrl)
    THEN [threw |-> TRUE, message |-> "Unexpected data URL format"]
    ELSE IF outcome.kind = "network"
    THEN [threw |-> TRUE, message |-> "Failed to fetch"]
    ELSE IF outcome.kind = "body"
    THEN [threw |-> TRUE, message |-> "network error"]
    ELSE IF outcome.kind = "http"
    THEN [threw |-> TRUE, message |-> "Fetch failed: 500"]
    ELSE [threw |-> FALSE, latest |-> latestFromText(JoinLines(outcome.body))]

\* the tile does not record the window of its build and counts as 15-day
tileIdent_long(s, level, windowKey) ==
    [stationId |-> s.id, stationName |-> s.name, level |-> level,
     windowKey |-> "15d", sensorCount |-> Len(sensorsOrdered(s))]

\* the fields every tile of one sensor carries
tileIdent(s, level, windowKey) ==
    [stationId |-> s.id, stationName |-> s.name, level |-> level,
     windowKey |-> windowKey, sensorCount |-> Len(sensorsOrdered(s))]

\* the `if (!url)` branch skipped: nothing is pushed for the sensor
missingTile_skip(ident) == <<>>

\* the `if (!url)` branch
missingTile(ident) ==
    <<ident @@ [error |-> TRUE,
                reason |-> IF ident.windowKey = "6d" THEN "missing turbidity 6d URL"
                           ELSE "missing turbidity 15d URL"]>>

\* the `if (!latest)` branch without its `continue`: reading latest.value of
\* null throws, and the catch block pushes a second tile
pushedTiles_fallthrough(ident, lt, now) ==
    IF lt = Null
    THEN <<ident @@ tileOutcome(lt, now),
           ident @@ [error |-> TRUE, reason |-> "Cannot read properties of null"]>>
    ELSE <<ident @@ tileOutcome(lt, now)>>

\* the try block once fetchLatestFromEagleDataUrl has returned
pushedTiles(ident, lt, now) == <<ident @@ tileOutcome(lt, now)>>

\* no catch block: the exception leaves buildTurbidityTiles
catchTile_rethrow(ident, message) == [threw |-> TRUE, tiles |-> <<>>]

\* the catch block
catchTile(ident, message) ==
    [threw |-> FALSE,
     tiles |-> <<ident @@ [error |-> TRUE,
                           reason |-> IF message # "" THEN message ELSE "fetch error"]>>]

\* the try ... catch of the sensor loop, once fetchLatestFromEagleDataUrl
\* has returned or thrown (r)
tryTiles(ident, r, now) ==
    IF r.threw THEN catchTile(ident, r.message)
    ELSE [threw |-> FALSE, tiles |-> pushedTiles(ident, r.latest, now)]

\* one pass of the sensor loop
sensorTiles(s, level, windowKey, outcome, now) ==
    IF getTurbidityUrl(s, level, windowKey) = <<>>
    THEN [threw |-> FALSE, tiles |-> missingTile(tileIdent(s, level, windowKey))]
    ELSE tryTiles(tileIdent(s, level, windowKey),
                  fetchLatestDual(getTurbidityUrl(s, level, windowKey), outcome), now)

\* the sensors in the order the loops visit them
RECURSIVE workDual(_)
workDual(sorted) ==
    IF sorted = <<>> THEN <<>>
    ELSE [i \in 1..Len(sensorsOrdered(Head(sorted))) |->
            [s |-> Head(sorted), level |-> sensorsOrdered(Head(sorted))[i]]]
         \o workDual(Tail(sorted))

\* fetchLatestFromEagleDataUrl without the pattern test before fetch()
awaitsFetch_unchecked(item, windowKey) ==
    getTurbidityUrl(item.s, item.level, windowKey) # <<>>

\* fetchLatestFromEagleDataUrl gets as far as fetch()
awaitsFetch(item, windowKey) ==
    LET url == getTurbidityUrl(item.s, item.level, windowKey)
    IN url # <<>> /\ UrlOk(url)

\* a loop: the sensor it is at (i), the tiles pushed so far, and whether an
\* exception has left it
IdleTask == [i |-> 0, tiles |-> <<>>, threw |-> FALSE]

RECURSIVE runDual(_, _, _, _)

\* sensor i has pushed its tiles (st): the loop goes to the next sensor
stepDual(work, windowKey, i, tiles, st) ==
    IF st.threw THEN [i |-> i, tiles |-> tiles, threw |-> TRUE]
    ELSE runDual(work, windowKey, i + 1, tiles \o st.tiles)

\* the loop runs on from sensor i until it has to wait for a response
runDual(work, windowKey, i, tiles) ==
    IF i > Len(work) \/ awaitsFetch(work[i], windowKey)
    THEN [i |-> i, tiles |-> tiles, threw |-> FALSE]
    ELSE stepDual(work, windowKey, i, tiles,
                  sensorTiles(work[i].s, work[i].level, windowKey, NoResponse, BuildNow))

\* a request that fails is sent again: the loop stays at its sensor
resumeDual_retry(work, windowKey, task, outcome) ==
    IF outcome.kind \in {"network", "http"} THEN task
    ELSE stepDual(work, windowKey, task.i, task.tiles,
                  sensorTiles(work[task.i].s, work[task.i].level, windowKey, outcome, BuildNow))

\* the response for the sensor the loop waits at arrives and the loop runs on
resumeDual(work, windowKey, task, outcome) ==
    stepDual(work, windowKey, task.i, task.tiles,
             sensorTiles(work[task.i].s, work[task.i].level, windowKey, outcome, BuildNow))

\* the summary loop
summaryOf(tiles) ==
    LET of(sid, w) == {i \in 1..Len(tiles) : tiles[i].stationId = sid
                                             /\ tiles[i].windowKey = w}
        last(sid, w, l) == tiles[CHOOSE i \in of(sid, w) :
                                   /\ tiles[i].level = l
                                   /\ \A j \in of(sid, w) : tiles[j].level = l => j <= i]
    IN [sid \in {tiles[i].stationId : i \in 1..Len(tiles)} |->
         [byWindow |-> [w \in {"6d", "15d"} |->
            [l \in {tiles[i].level : i \in of(sid, w)} |->
               IF last(sid, w, l).error
               THEN [ok |-> FALSE, reason |-> last(sid, w, l).reason]
               ELSE [ok |-> TRUE, value |-> last(sid, w, l).value,
                     timestamp |-> last(sid, w, l).timestamp,
                     stale |-> last(sid, w, l).stale]]]]]

\* the merged summary keeps the reading the popups had for a sensor whose
\* new status is an error
mergedSummary_keepGood(sum6, sum15) ==
    LET new(sid, w) == IF w = "6d"
                       THEN IF sid \in DOMAIN sum6 THEN sum6[sid].byWindow["6d"] ELSE <<>>
                       ELSE IF sid \in DOMAIN sum15 THEN sum15[sid].byWindow["15d"] ELSE <<>>
        had(sid, w, l) == /\ sid \in DOMAIN popups.summary
                          /\ l \in DOMAIN popups.summary[sid].byWindow[w]
                          /\ popups.summary[sid].byWindow[w][l].ok
    IN [sid \in DOMAIN sum6 \cup DOMAIN sum15 |->
          [byWindow |->
             [w \in {"6d", "15d"} |->
                [l \in DOMAIN new(sid, w) |->
                   IF ~new(sid, w)[l].ok /\ had(sid, w, l)
                   THEN popups.summary[sid].byWindow[w][l]
                   ELSE new(sid, w)[l]]]]]

\* the merged summary keeps the error the popups had for a sensor
mergedSummary_stickyError(sum6, sum15) ==
    LET new(sid, w) == IF w = "6d"
                       THEN IF sid \in DOMAIN sum6 THEN sum6[sid].byWindow["6d"] ELSE <<>>
                       ELSE IF sid \in DOMAIN sum15 THEN sum15[sid].byWindow["15d"] ELSE <<>>
        failed(sid, w, l) == /\ sid \in DOMAIN popups.summary
                             /\ l \in DOMAIN popups.summary[sid].byWindow[w]
                             /\ ~popups.summary[sid].byWindow[w][l].ok
    IN [sid \in DOMAIN sum6 \cup DOMAIN sum15 |->
          [byWindow |->
             [w \in {"6d", "15d"} |->
                [l \in DOMAIN new(sid, w) |->
                   IF failed(sid, w, l) THEN popups.summary[sid].byWindow[w][l]
                   ELSE new(sid, w)[l]]]]]

\* renderDualTurbidityTiles: the merged summary
mergedSummary(sum6, sum15) ==
    [sid \in DOMAIN sum6 \cup DOMAIN sum15 |->
       [byWindow |->
          [w \in {"6d", "15d"} |->
             IF w = "6d"
             THEN IF sid \in DOMAIN sum6 THEN sum6[sid].byWindow["6d"] ELSE <<>>
             ELSE IF sid \in DOMAIN sum15 THEN sum15[sid].byWindow["15d"] ELSE <<>>]]]

-----------------------------------------------------------------------------
(* Snapshot Builder (part_002) *)

\* in millionths, as the readings are
THRESHOLDS == [amber |-> 5 * Micro, red |-> 10 * Micro]

classifyValue(value) ==
    IF value >= THRESHOLDS.red THEN "red"
    ELSE IF value >= THRESHOLDS.amber THEN "amber"
    ELSE "green"

\* Array.isArray(s.sensors) ? s.sensors : ["top"]
sensorsSnap(s) == IF "sensors" \in DOMAIN s THEN s.sensors ELSE <<"top">>

\* s?.values?.[level]?.turbidity || ""
urlSnap(s, level) ==
    IF "values" \in DOMAIN s /\ level \in DOMAIN s.values
    THEN FirstTruthy(s.values[level], <<"turbidity">>) ELSE <<>>

\* fetchLatestFromEagleDataUrl(dataUrl), given how the request ends; reading
\* the body is outside the try block
fetchLatestSnap(dataUrl, outcome, now) ==
    IF dataUrl = <<>>
    THEN [threw |-> FALSE, res |-> [ok |-> FALSE, reason |-> "Missing link"]]
    ELSE IF outcome.kind = "network"
    THEN [threw |-> FALSE, res |-> [ok |-> FALSE, reason |-> "Fetch failed (network)"]]
    ELSE IF outcome.kind = "http"
    THEN [threw |-> FALSE, res |-> [ok |-> FALSE, reason |-> "Fetch failed (HTTP 500)"]]
    ELSE IF outcome.kind = "body"
    THEN [threw |-> TRUE, res |-> Null]
    ELSE [threw |-> FALSE,
          res |-> snapOutcome(parseEagleCsvText(JoinLines(outcome.body)), now)]

\* the sensors in the order the fetch loop visits them
RECURSIVE workSnap(_)
workSnap(ss) ==
    IF ss = <<>> THEN <<>>
    ELSE [i \in 1..Len(sensorsSnap(Head(ss))) |->
            [s |-> Head(ss), level |-> sensorsSnap(Head(ss))[i]]]
         \o workSnap(Tail(ss))

RECURSIVE runSnap(_, _, _)

\* perSensor[key] = r for sensor i, unless the call threw; tiles holds the
\* assignments in order
stepSnap(work, i, tiles, r) ==
    IF r.threw THEN [i |-> i, tiles |-> tiles, threw |-> TRUE]
    ELSE runSnap(work, i + 1,
                 Append(tiles, [stationId |-> work[i].s.id, level |-> work[i].level,
                                res |-> r.res]))

\* the loop runs on from sensor i until it has to wait for a response
runSnap(work, i, tiles) ==
    IF i > Len(work) \/ urlSnap(work[i].s, work[i].level) # <<>>
    THEN [i |-> i, tiles |-> tiles, threw |-> FALSE]
    ELSE stepSnap(work, i, tiles, fetchLatestSnap(<<>>, NoResponse, BuildNow))

\* the response for the sensor the loop waits at arrives and the loop runs on
resumeSnap(work, task, outcome) ==
    stepSnap(work, task.i, task.tiles,
             fetchLatestSnap(urlSnap(work[task.i].s, work[task.i].level), outcome, BuildNow))

\* perSensor: key -> the result assigned last
perSensorOf(tiles) ==
    [key \in {<<tiles[i].stationId, tiles[i].level>> : i \in 1..Len(tiles)} |->
       tiles[CHOOSE i \in 1..Len(tiles) :
               /\ <<tiles[i].stationId, tiles[i].level>> = key
               /\ \A j \in 1..Len(tiles) :
                    <<tiles[j].stationId, tiles[j].level>> = key => j <= i].res]

\* the station-level loop: worst case across the sensors that are ok and
\* not stale, gray when there is none
perStationOf(ss, perSensor) ==
    LET results(s) == [i \in 1..Len(sensorsSnap(s)) |->
                         [level |-> sensorsSnap(s)[i],
                          res |-> perSensor[<<s.id, sensorsSnap(s)[i]>>]]]
        okResults(s) == SelectSeq(results(s), LAMBDA x : x.res.ok /\ ~x.res.stale)
        classes(s) == {classifyValue(okResults(s)[i].res.value) :
                         i \in 1..Len(okResults(s))}
        last(id) == ss[CHOOSE i \in 1..Len(ss) :
                         ss[i].id = id /\ \A j \in 1..Len(ss) : ss[j].id = id => j <= i]
    IN [id \in {ss[i].id : i \in 1..Len(ss)} |->
          [className |-> IF okResults(last(id)) = <<>> THEN "gray"
                         ELSE IF "red" \in classes(last(id)) THEN "red"
                         ELSE IF "amber" \in classes(last(id)) THEN "amber"
                         ELSE "green",
           summaryLines |-> results(last(id)),
           anyOk |-> okResults(last(id)) # <<>>]]

\* the value buildTurbiditySnapshot returns
snapshotOf(ss, perSensor) ==
    [perSensor |-> perSensor, perStation |-> perStationOf(ss, perSensor)]

tileCssClassFromSensorResult(res) ==
    IF ~res.ok THEN "tile gray"
    ELSE IF res.stale THEN "tile gray"
    ELSE IF classifyValue(res.value) = "red" THEN "tile red"
    ELSE IF classifyValue(res.value) = "amber" THEN "tile amber"
    ELSE "tile green"

\* renderTurbidityTiles(stations, snapshot): one tile per station and sensor
tilesHtml(ss, snapshot) ==
    LET work == workSnap(ss)
    IN [i \in 1..Len(work) |->
          [station |-> work[i].s.id, level |-> work[i].level,
           cls |-> tileCssClassFromSensorResult(
                       snapshot.perSensor[<<work[i].s.id, work[i].level>>]),
           res |-> snapshot.perSensor[<<work[i].s.id, work[i].level>>]]]

-----------------------------------------------------------------------------
(* main(): configuration load, boot build, 5-minute refresh *)

\* builds started at most
MaxBuilds == 3

Pages == {"index", "charts", "calibration"}

\* the content of a tile container: blank, loading, failed, none ("No ...
\* links configured."), or the tiles of a build
Element(kind, b, tiles) == [kind |-> kind, build |-> b, tiles |-> tiles]

\* the loops of a build: one per window (dual), or one (snapshot)
workOf(ss) ==
    IF program = "dual" THEN workDual(sortedStations(ss)) ELSE workSnap(ss)

startTasks(work) ==
    IF program = "dual"
    THEN [w \in {"6d", "15d"} |-> runDual(work, w, 1, <<>>)]
    ELSE [w \in {"all"} |-> runSnap(work, 1, <<>>)]

\* the request a loop waits on, if any
awaited(b, w, task, work) ==
    IF ~task.threw /\ task.i <= Len(work)
    THEN {<<b, w, work[task.i].s.id, work[task.i].level>>} ELSE {}

\* a window is rendered as soon as its own loop has finished
renderReady_own(w, tasks, n) == tasks[w].i > n

\* Promise.race in place of Promise.all: rendering waits for the first loop
renderReady_first(w, tasks, n) == \E k \in DOMAIN tasks : tasks[k].i > n

\* the container is rewritten with the tiles pushed so far
renderReady_partial(w, tasks, n) == tasks[w].tiles # <<>>

\* await Promise.all([...]): rendering waits for both loops
renderReady(w, tasks, n) == \A k \in DOMAIN tasks : tasks[k].i > n

\* build b has run as far as it can: it waits for a response, or its promise
\* settles and the code behind the await runs (render, popups, setInterval,
\* or main's catch block for the boot build).  n is the number of sensors
\* the loops visit, e6 and e15 are the containers before, reqs and srv the
\* request log including this step's entries; the log keeps the builds that
\* are running and the one just resolved.
Advance(b, ss, n, tasks, e6, e15, reqs, srv) ==
    \E threw \in {\E w \in DOMAIN tasks : tasks[w].threw} :
    \E done \in {~threw /\ \A w \in DOMAIN tasks : tasks[w].i > n} :
    \E live \in {{b} \cup {c \in DOMAIN builds : c # b /\ builds[c].state = "running"}} :
    LET keep(f) == IF done THEN [r \in {q \in DOMAIN f : q[1] \in live} |-> f[r]] ELSE f
        failed == Element("failed", 0, <<>>)
        shown(tiles) == Element(IF tiles = <<>> THEN "none" ELSE "tiles", b, tiles)
    IN /\ builds' = [builds EXCEPT ![b] =
                       IF threw THEN [state |-> "rejected", tasks |-> <<>>]
                       ELSE IF done THEN [state |-> "resolved", tasks |-> <<>>]
                       ELSE [state |-> "running", tasks |-> tasks]]
       /\ pc' = IF b # 1 THEN pc
                ELSE IF threw THEN "failed" ELSE IF done THEN "idle" ELSE "boot"
       /\ topMsg' = IF b = 1 /\ threw THEN topMsg + 1 ELSE topMsg
       /\ timer' = IF b = 1 /\ done THEN timer + 1 ELSE timer
       /\ requests' = keep(reqs)
       /\ served' = keep(srv)
       /\ IF program = "dual"
          THEN /\ el6' = IF threw THEN (IF b = 1 THEN failed ELSE e6)
                         ELSE IF renderReady("6d", tasks, n) THEN shown(tasks["6d"].tiles)
                         ELSE e6
               /\ el15' = IF threw THEN (IF b = 1 THEN failed ELSE e15)
                          ELSE IF renderReady("15d", tasks, n) THEN shown(tasks["15d"].tiles)
                          ELSE e15
               /\ popups' = IF done
                            THEN [build |-> b,
                                  summary |-> mergedSummary(summaryOf(tasks["6d"].tiles),
                                                            summaryOf(tasks["15d"].tiles))]
                            ELSE popups
               /\ UNCHANGED <<tilesEl, mapView>>
          ELSE \E snapshot \in {IF done THEN snapshotOf(ss, perSensorOf(tasks["all"].tiles))
                                 ELSE Null} :
               /\ tilesEl' = IF threw THEN (IF b = 1 THEN failed ELSE tilesEl)
                             ELSE IF done THEN shown(tilesHtml(ss, snapshot))
                             ELSE tilesEl
               /\ mapView' = IF b = 1 /\ done
                             THEN [build |-> b, perStation |-> snapshot.perStation]
                             ELSE mapView
               /\ UNCHANGED <<el6, el15, popups>>

\* the request log with the requests in new added
logged(reqs, new) ==
    [r \in DOMAIN reqs \cup new |->
       (IF r \in DOMAIN reqs THEN reqs[r] ELSE 0) + (IF r \in new THEN 1 ELSE 0)]

\* a build starts: the containers show "Loading" (dual) and the loops run up
\* to their first fetch
StartBuild(b, ss) ==
    \E work \in {workOf(ss)} : \E tasks \in {startTasks(work)} :
        Advance(b, ss, Len(work), tasks, Element("loading", 0, <<>>), Element("loading", 0, <<>>),
                logged(requests, UNION {awaited(b, w, tasks[w], work) : w \in DOMAIN tasks}),
                served)

FeedIdle ==
    /\ srcLines = <<>>
    /\ text = <<>>
    /\ latest = Pending
    /\ result = Pending
    /\ evalAt = 0
    /\ sensor = NoSensor
    /\ severity = NoSeverity

MainIdle ==
    /\ pc = "load"
    /\ stations = <<>>
    /\ builds = [b \in 1..MaxBuilds |-> [state |-> "unused", tasks |-> <<>>]]
    /\ nextBuild = 1
    /\ timer = 0
    /\ loads = 0
    /\ topMsg = 0
    /\ requests = <<>>
    /\ served = <<>>
    /\ el6 = Element("blank", 0, <<>>)
    /\ el15 = Element("blank", 0, <<>>)
    /\ popups = [build |-> 0, summary |-> <<>>]
    /\ tilesEl = Element("blank", 0, <<>>)
    /\ mapView = [build |-> 0, perStation |-> <<>>]

\* the feed pipeline on its own: the page has not started loading
InitFeed ==
    /\ program \in Programs
    /\ srcLines \in FeedBodies
    /\ text = JoinLines(srcLines)
    /\ latest = Pending
    /\ result = Pending
    /\ evalAt = 0
    /\ sensor = NoSensor
    /\ severity = NoSeverity
    /\ page = "index"
    /\ MainIdle

\* the body is parsed
FeedParse ==
    /\ latest = Pending
    /\ latest' = IF program = "dual" THEN latestFromText(text)
                 ELSE parseEagleCsvText(text)
    /\ UNCHANGED <<program, srcLines, text, result, evalAt, sensor, severity,
                   mainVars, netVars, domVars>>

\* the reading is evaluated and the sensor status recorded
FeedRecord ==
    /\ latest # Pending
    /\ result = Pending
    /\ \E now \in Nows :
        /\ evalAt' = now
        /\ result' = IF program = "dual" THEN tileOutcome(latest, now)
                     ELSE snapOutcome(latest, now)
    /\ UNCHANGED <<program, srcLines, text, latest, sensor, severity,
                   mainVars, netVars, domVars>>

NextFeed == FeedParse \/ FeedRecord

SpecFeed == InitFeed /\ [][NextFeed]_vars

\* currentPage() of the snapshot iteration knows "charts" and "index" only
Init ==
    /\ program \in Programs
    /\ page \in IF program = "dual" THEN Pages ELSE {"index", "charts"}
    /\ FeedIdle
    /\ MainIdle

InitDual == Init /\ program = "dual"

\* loadStations() returns the configuration; on the index page the boot
\* build starts
LoadOk ==
    /\ pc = "load"
    /\ loads' = loads + 1
    /\ \E cfg \in Configs :
        /\ stations' = cfg
        /\ IF page = "index"
           THEN /\ nextBuild' = 2
                /\ StartBuild(1, cfg)
           ELSE /\ pc' = "done"
                /\ UNCHANGED <<builds, nextBuild, timer, topMsg, netVars, domVars>>
    /\ UNCHANGED <<program, feedVars, page>>

\* loadStations() throws: main's catch block writes the message
LoadFail ==
    /\ pc = "load"
    /\ loads' = loads + 1
    /\ pc' = "failed"
    /\ topMsg' = topMsg + 1
    /\ IF page = "index" /\ program = "dual"
       THEN /\ el6' = Element("failed", 0, <<>>)
            /\ el15' = Element("failed", 0, <<>>)
            /\ UNCHANGED tilesEl
       ELSE IF page = "index"
       THEN /\ tilesEl' = Element("failed", 0, <<>>)
            /\ UNCHANGED <<el6, el15>>
       ELSE UNCHANGED <<el6, el15, tilesEl>>
    /\ UNCHANGED <<program, feedVars, page, stations, builds, nextBuild, timer,
                   netVars, popups, mapView>>

\* setInterval called at the top of main: the callback fires whether or not
\* the configuration has loaded and the boot build has completed
Tick_early ==
    /\ nextBuild <= MaxBuilds
    /\ nextBuild' = nextBuild + 1
    /\ StartBuild(nextBuild, stations)
    /\ UNCHANGED <<program, feedVars, page, stations, loads>>

\* the setInterval callback fires
Tick ==
    /\ timer > 0
    /\ nextBuild <= MaxBuilds
    /\ nextBuild' = nextBuild + 1
    /\ StartBuild(nextBuild, stations)
    /\ UNCHANGED <<program, feedVars, page, stations, loads>>

\* the request loop w of build b waits on ends with outcome o
Respond(b, w, o) ==
    /\ builds[b].state = "running"
    /\ w \in DOMAIN builds[b].tasks
    /\ \E work \in {workOf(stations)} :
        /\ awaited(b, w, builds[b].tasks[w], work) # {}
        /\ \E next \in {IF program = "dual"
                         THEN resumeDual(work, w, builds[b].tasks[w], o)
                         ELSE resumeSnap(work, builds[b].tasks[w], o)} :
            Advance(b, stations, Len(work), [builds[b].tasks EXCEPT ![w] = next], el6, el15,
                    logged(requests, awaited(b, w, next, work)),
                    [r \in DOMAIN served \cup awaited(b, w, builds[b].tasks[w], work) |->
                       IF r \in DOMAIN served THEN served[r] ELSE o])
    /\ UNCHANGED <<program, feedVars, page, stations, nextBuild, loads>>

Next ==
    \/ LoadOk
    \/ LoadFail
    \/ Tick
    \/ \E b \in 1..MaxBuilds, w \in {"6d", "15d", "all"}, o \in Outcomes : Respond(b, w, o)

Spec == Init /\ [][Next]_vars

SpecDual == InitDual /\ [][Next]_vars

\* every request eventually responds or fails
FairSpec ==
    Spec /\ \A b \in 1..MaxBuilds, w \in {"6d", "15d", "all"} :
               WF_vars(\E o \in Outcomes : Respond(b, w, o))

-----------------------------------------------------------------------------
(* Build resilience, consistency and completeness *)

\* the build whose result the page presents, 0 when there is none
OnDisplay == IF program = "dual" THEN popups.build ELSE tilesEl.build

\* the sensor status the presented build recorded for request r
StatusOf(r) ==
    IF program = "dual" THEN popups.summary[r[3]].byWindow[r[2]][r[4]]
    ELSE tilesEl.tiles[CHOOSE i \in 1..Len(tilesEl.tiles) :
                         /\ tilesEl.tiles[i].station = r[3]
                         /\ tilesEl.tiles[i].level = r[4]].res

\* C1: whatever feeds fail (non-success HTTP response or network error), no
\* build rejects, and the completed build records Error for the feeds that
\* failed and Ok for exactly the feeds that returned a parseable reading.
C1_FailuresNeverAbort ==
    /\ \A b \in DOMAIN builds : builds[b].state # "rejected"
    /\ \A r \in DOMAIN served :
         r[1] = OnDisplay =>
            /\ served[r].kind # "text" => ~StatusOf(r).ok
            /\ StatusOf(r).ok <=> /\ served[r].kind = "text"
                                  /\ HasDataLine(served[r].body)
                                  /\ LastDataLine(served[r].body).numeric

\* C2: the 6-day tiles, the 15-day tiles and the map popups on the page all
\* come from one and the same build, whatever ticks and completions came
\* before and however the builds overlap.
C2_OneBuildOnDisplay ==
    Cardinality({el6.build, el15.build, popups.build} \ {0}) <= 1

\* a later build is on the page, tiles and popups, while an earlier one is
\* still running
C2_Witness ==
    \E b \in DOMAIN builds :
        /\ builds[b].state = "running"
        /\ popups.build > b
        /\ el6.kind = "tiles" /\ el6.build = popups.build
        /\ el15.kind = "tiles" /\ el15.build = popups.build

\* C3: the summary (dual) or snapshot (snapshot) a completed build produced
\* has an entry for every station of the loaded configuration, even for a
\* station all of whose sensors ended in Error.
C3_EveryStationPresent ==
    /\ (program = "dual" /\ popups.build > 0) =>
          \A i \in 1..Len(stations) : stations[i].id \in DOMAIN popups.summary
    /\ (program = "snapshot" /\ mapView.build > 0) =>
          \A i \in 1..Len(stations) : stations[i].id \in DOMAIN mapView.perStation

\* a completed build with a station whose sensors all ended in Error, one of
\* them because its request failed
C3_Witness ==
    /\ program = "dual"
    /\ popups.build > 0
    /\ \E i \in 1..Len(stations) :
         /\ \A w \in {"6d", "15d"} :
              \A l \in DOMAIN popups.summary[stations[i].id].byWindow[w] :
                 ~popups.summary[stations[i].id].byWindow[w][l].ok
         /\ \E r \in DOMAIN served :
              r[1] = popups.build /\ r[3] = stations[i].id /\ served[r].kind = "http"

\* C4: in a completed build every (station, sensor position, window) tuple
\* of the configuration has exactly one recorded status, which is either Ok
\* with value, timestamp and stale flag, or Error with a reason.
C4_ExactlyOneStatus ==
    \A el \in {[w |-> "6d", c |-> el6], [w |-> "15d", c |-> el15]} :
        el.c.build > 0 =>
           /\ \A k \in 1..Len(workOf(stations)) :
                Cardinality({i \in 1..Len(el.c.tiles) :
                               /\ el.c.tiles[i].stationId = workOf(stations)[k].s.id
                               /\ el.c.tiles[i].level = workOf(stations)[k].level
                               /\ el.c.tiles[i].windowKey = el.w}) = 1
           /\ Len(el.c.tiles) = Len(workOf(stations))
           /\ \A i \in 1..Len(el.c.tiles) :
                IF el.c.tiles[i].error
                THEN {"reason", "value", "timestamp", "stale"} \cap DOMAIN el.c.tiles[i]
                        = {"reason"}
                ELSE {"reason", "value", "timestamp", "stale"} \cap DOMAIN el.c.tiles[i]
                        = {"value", "timestamp", "stale"}

\* a completed build that recorded an Ok and, for a feed without data, an
\* Error
C4_Witness ==
    /\ el15.kind = "tiles"
    /\ \E i \in 1..Len(el15.tiles) : ~el15.tiles[i].error
    /\ \E i \in 1..Len(el15.tiles) :
         el15.tiles[i].error /\ el15.tiles[i].reason = "no data lines found"

\* C5: provided every request eventually responds or fails, every build
\* that has started eventually completes: its promise resolves.
C5_BuildsComplete ==
    \A b \in 1..MaxBuilds :
        (builds[b].state = "running") ~> (builds[b].state = "resolved")

\* C6: when loading the configuration fails, the top-level message is shown
\* once, no feed is fetched, no refresh timer is started and loading is not
\* retried; and the top-level failure state never follows a build, whatever
\* feeds fail.
C6_ConfigFailureOnly ==
    /\ loads <= 1
    /\ topMsg <= 1
    /\ pc = "failed" =>
          /\ topMsg = 1
          /\ loads = 1
          /\ requests = <<>>
          /\ timer = 0
          /\ \A b \in DOMAIN builds : builds[b].state = "unused"
    /\ \A b \in DOMAIN builds : builds[b].state # "rejected"

\* the configuration failed to load on the index page
C6_Witness ==
    /\ pc = "failed"
    /\ page = "index"
    /\ el6.kind = "failed"
    /\ el15.kind = "failed"

-----------------------------------------------------------------------------
(* Threshold Classifier (part_003) *)

\* the 6d and 15d triggers of a site exchanged
TURBIDITY_THRESHOLDS_swapped ==
    [seagrass |-> ("6d" :> [amber |-> 3000000, red |-> 3300000])
                  @@ ("15d" :> [amber |-> 4000000, red |-> 4330000]),
     scallops |-> ("6d" :> [amber |-> 3000000, red |-> 3300000])
                  @@ ("15d" :> [amber |-> 4000000, red |-> 4330000]),
     grayling |-> ("6d" :> [amber |-> 4900000, red |-> 16500000])
                  @@ ("15d" :> [amber |-> 8500000, red |-> 15000000])]

\* site -> window -> triggers, in millionths
TURBIDITY_THRESHOLDS ==
    [seagrass |-> ("6d" :> [amber |-> 4000000, red |-> 4330000])
                  @@ ("15d" :> [amber |-> 3000000, red |-> 3300000]),
     scallops |-> ("6d" :> [amber |-> 4000000, red |-> 4330000])
                  @@ ("15d" :> [amber |-> 3000000, red |-> 3300000]),
     grayling |-> ("6d" :> [amber |-> 8500000, red |-> 15000000])
                  @@ ("15d" :> [amber |-> 4900000, red |-> 16500000])]

\* String.prototype.toLowerCase() on the station ids of the model: one is
\* configured with a capital letter
toLowerCase(id) == IF id = "Scallops" THEN "scallops" ELSE id

Min(a, b) == IF a <= b THEN a ELSE b

Max(a, b) == IF a >= b THEN a ELSE b

\* classifyTurbidity falling back to the triggers 5 / 10 of the earlier
\* iterations for a site without triggers of its own
classifyTurbidity_default(stationId, windowKey, value) ==
    LET sid == toLowerCase(stationId)
        wk == IF windowKey = "6d" THEN "6d" ELSE "15d"
        th == IF sid \in DOMAIN TURBIDITY_THRESHOLDS /\ wk \in DOMAIN TURBIDITY_THRESHOLDS[sid]
              THEN TURBIDITY_THRESHOLDS[sid][wk]
              ELSE [amber |-> 5000000, red |-> 10000000]
    IN IF value >= Max(th.amber, th.red) THEN "red"
       ELSE IF value >= Min(th.amber, th.red) THEN "amber"
       ELSE "green"

\* classifyTurbidity with the triggers exclusive
classifyTurbidity_strict(stationId, windowKey, value) ==
    LET sid == toLowerCase(stationId)
        wk == IF windowKey = "6d" THEN "6d" ELSE "15d"
    IN IF sid \notin DOMAIN TURBIDITY_THRESHOLDS THEN "neutral"
       ELSE IF wk \notin DOMAIN TURBIDITY_THRESHOLDS[sid] THEN "neutral"
       ELSE LET th == TURBIDITY_THRESHOLDS[sid][wk]
            IN IF value > Max(th.amber, th.red) THEN "red"
               ELSE IF value > Min(th.amber, th.red) THEN "amber"
               ELSE "green"

\* the triggers compared as the table gives them
classifyEntry_asGiven(th, value) ==
    IF ~th.amber.fin \/ ~th.red.fin THEN "neutral"
    ELSE IF value >= th.red.v THEN "red"
    ELSE IF value >= th.amber.v THEN "amber"
    ELSE "green"

\* classifyTurbidity from `const amber` on: th is the entry found for the
\* site and window, its triggers numbers that are finite or not (NaN,
\* Infinity, or undefined turned into NaN by Number())
classifyEntry(th, value) ==
    IF ~th.amber.fin \/ ~th.red.fin THEN "neutral"
    ELSE LET amberEff == Min(th.amber.v, th.red.v)
             redEff == Max(th.amber.v, th.red.v)
         IN IF value >= redEff THEN "red"
            ELSE IF value >= amberEff THEN "amber"
            ELSE "green"

\* classifyTurbidity(stationId, windowKey, value); the triggers of the table
\* are finite numbers
classifyTurbidity(stationId, windowKey, value) ==
    LET sid == toLowerCase(stationId)
        wk == IF windowKey = "6d" THEN "6d" ELSE "15d"
    IN IF sid \notin DOMAIN TURBIDITY_THRESHOLDS THEN "neutral"
       ELSE IF wk \notin DOMAIN TURBIDITY_THRESHOLDS[sid] THEN "neutral"
       ELSE classifyEntry([amber |-> Finite(TURBIDITY_THRESHOLDS[sid][wk].amber),
                           red |-> Finite(TURBIDITY_THRESHOLDS[sid][wk].red)], value)

\* tileClassFor testing the stale flag before the error flag
tileClassFor_staleFirst(t) ==
    IF t.stale THEN "tile tile--stale"
    ELSE IF t.error THEN "tile tile--error"
    ELSE LET cls == classifyTurbidity(t.stationId, t.windowKey, t.value)
         IN CASE cls = "red" -> "tile tile--red"
              [] cls = "amber" -> "tile tile--amber"
              [] cls = "green" -> "tile tile--green"
              [] cls = "neutral" -> "tile tile--neutral"

\* tileClassFor(t): the class attribute of the tile's button
tileClassFor(t) ==
    IF t.error THEN "tile tile--error"
    ELSE IF t.stale THEN "tile tile--stale"
    ELSE LET cls == classifyTurbidity(t.stationId, t.windowKey, t.value)
         IN CASE cls = "red" -> "tile tile--red"
              [] cls = "amber" -> "tile tile--amber"
              [] cls = "green" -> "tile tile--green"
              [] cls = "neutral" -> "tile tile--neutral"

-----------------------------------------------------------------------------
(* The sensor pipeline: what buildTurbidityTiles and renderTilesInto do for *)
(* one sensor of one station in one window, step by step: resolve the feed *)
(* address, fetch, parse, evaluate, render.                                 *)

\* stations of the sensor pipeline beside those of ConfigA and ConfigB:
\* scallops (id written with a capital, no sensor list, a 6-day alias and the
\* windowless key), offshore (no triggers; the windowless key on top, 15-day
\* and 6-day aliases on bottom), the same offshore storing its feed map under
\* "data", and grayling with a feed for each window
SensorStations ==
    << ConfigA[1], ConfigA[2], ConfigB[1], ConfigB[2],
       [id |-> "Scallops", name |-> "Scallops",
        values |-> [top |-> [turbidity6 |-> Url.top6d, turbidity |-> Url.top]]],
       [id |-> "offshore", name |-> "Offshore", sensors |-> <<"top", "bottom">>,
        values |-> [top |-> [turbidity |-> Url.top],
                    bottom |-> [turbidity15 |-> Url.bottom, turbidity_6day |-> Url.top6d,
                                turbidity |-> Url.top]]],
       [id |-> "offshore", name |-> "Offshore (data)", sensors |-> <<"top", "bottom">>,
        data |-> [top |-> [turbidity |-> Url.top],
                  bottom |-> [turbidity15 |-> Url.bottom, turbidity_6day |-> Url.top6d,
                              turbidity |-> Url.top]]],
       [id |-> "grayling", name |-> "Grayling (both windows)", sensors |-> <<"top">>,
        values |-> [top |-> [turbidity6d |-> Url.top6d, turbidity_15day |-> Url.top15d]]] >>

\* the bodies the feed of the sensor pipeline serves: nothing, a reading a
\* day old, two readings, or one reading around a trigger level
SensorBodies ==
    {<<>>, <<"jan1">>, <<"jan1", "jan2">>, <<"jan1lf", "jan2">>}
    \cup {<<n>> : n \in ValueLines}

InitSensor ==
    /\ program = "dual"
    /\ srcLines \in SensorBodies
    /\ text = <<>>
    /\ latest = Pending
    /\ result = Pending
    /\ evalAt = 0
    /\ \E i \in 1..Len(SensorStations), w \in {"6d", "15d"} :
         \E k \in 1..Len(sensorsOrdered(SensorStations[i])) :
            sensor = [step |-> "resolve", s |-> SensorStations[i],
                      level |-> sensorsOrdered(SensorStations[i])[k], windowKey |-> w,
                      url |-> <<>>, cls |-> ""]
    /\ severity = NoSeverity
    /\ page = "index"
    /\ MainIdle

\* const url = getTurbidityUrl(s, level, windowKey); without an address, or
\* with one fetchLatestFromEagleDataUrl rejects, the error tile is pushed
SensorResolve ==
    /\ sensor.step = "resolve"
    /\ \E url \in {getTurbidityUrl(sensor.s, sensor.level, sensor.windowKey)} :
        IF awaitsFetch(sensor, sensor.windowKey)
        THEN /\ sensor' = [sensor EXCEPT !.step = "fetch", !.url = url]
             /\ UNCHANGED result
        ELSE /\ sensor' = [sensor EXCEPT !.step = "render", !.url = url]
             /\ result' = sensorTiles(sensor.s, sensor.level, sensor.windowKey,
                                      NoResponse, BuildNow).tiles[1]
    /\ UNCHANGED <<program, srcLines, text, latest, evalAt, severity,
                   mainVars, netVars, domVars>>

\* fetch(dataUrl) and resp.text(): the body arrives
SensorFetch ==
    /\ sensor.step = "fetch"
    /\ text' = JoinLines(srcLines)
    /\ sensor' = [sensor EXCEPT !.step = "parse"]
    /\ UNCHANGED <<program, srcLines, latest, result, evalAt, severity,
                   mainVars, netVars, domVars>>

\* the body is parsed
SensorParse ==
    /\ sensor.step = "parse"
    /\ latest' = latestFromText(text)
    /\ sensor' = [sensor EXCEPT !.step = "record"]
    /\ UNCHANGED <<program, srcLines, text, result, evalAt, severity,
                   mainVars, netVars, domVars>>

\* the tile is pushed
SensorRecord ==
    /\ sensor.step = "record"
    /\ \E now \in Nows :
        /\ evalAt' = now
        /\ result' = pushedTiles(tileIdent(sensor.s, sensor.level, sensor.windowKey),
                                 latest, now)[1]
    /\ sensor' = [sensor EXCEPT !.step = "render"]
    /\ UNCHANGED <<program, srcLines, text, latest, severity, mainVars, netVars, domVars>>

\* renderTilesInto: the tile's class
SensorRender ==
    /\ sensor.step = "render"
    /\ sensor' = [sensor EXCEPT !.step = "done", !.cls = tileClassFor(result)]
    /\ UNCHANGED <<program, srcLines, text, latest, result, evalAt, severity,
                   mainVars, netVars, domVars>>

NextSensor ==
    SensorResolve \/ SensorFetch \/ SensorParse \/ SensorRecord \/ SensorRender

SpecSensor == InitSensor /\ [][NextSensor]_vars

\* the sensor's tile shows a reading that is not stale: it has been classified
Classified == sensor.step = "done" /\ ~result.error /\ ~result.stale

\* C11: for every (station, window) pair that has no entry in the threshold
\* table (station identifiers compared without regard to case), the
\* classification is Neutral whatever the value.
C11_AbsentIsNeutral ==
    (/\ Classified
     /\ toLowerCase(sensor.s.id) \notin {"seagrass", "scallops", "grayling"})
        => sensor.cls = "tile tile--neutral"

\* a reading of 100 FNU at a site without triggers, classified Neutral
C11_Witness ==
    /\ Classified
    /\ sensor.s.id = "offshore"
    /\ result.value = 100 * Micro
    /\ sensor.cls = "tile tile--neutral"

\* the trigger table as the dashboard states it, in millionths
Triggers ==
    {[id |-> "seagrass", w |-> "6d", amber |-> 4000000, red |-> 4330000],
     [id |-> "seagrass", w |-> "15d", amber |-> 3000000, red |-> 3300000],
     [id |-> "scallops", w |-> "6d", amber |-> 4000000, red |-> 4330000],
     [id |-> "scallops", w |-> "15d", amber |-> 3000000, red |-> 3300000],
     [id |-> "grayling", w |-> "6d", amber |-> 8500000, red |-> 15000000],
     [id |-> "grayling", w |-> "15d", amber |-> 4900000, red |-> 16500000]}

\* C12: for a present threshold pair the classification is Red when
\* value >= red, Amber when amber <= value < red and Green when
\* value < amber; for {amber 4.0, red 4.33} on the short window 3.9 is Green,
\* 4.0 is Amber, 4.329999 is Amber and 4.33 is Red.
C12_BoundariesInclusive ==
    Classified =>
       /\ \A t \in Triggers :
            (toLowerCase(sensor.s.id) = t.id /\ sensor.windowKey = t.w) =>
               /\ result.value >= t.red => sensor.cls = "tile tile--red"
               /\ (t.amber <= result.value /\ result.value < t.red)
                     => sensor.cls = "tile tile--amber"
               /\ result.value < t.amber => sensor.cls = "tile tile--green"
       /\ (toLowerCase(sensor.s.id) \in {"seagrass", "scallops"} /\ sensor.windowKey = "6d") =>
               /\ result.value = 3900000 => sensor.cls = "tile tile--green"
               /\ result.value = 4000000 => sensor.cls = "tile tile--amber"
               /\ result.value = 4329999 => sensor.cls = "tile tile--amber"
               /\ result.value = 4330000 => sensor.cls = "tile tile--red"

\* seagrass on the short window with a reading of 4.329999, classified Amber
C12_Witness ==
    /\ Classified
    /\ sensor.s.id = "seagrass"
    /\ sensor.windowKey = "6d"
    /\ srcLines = <<"v4_329999">>
    /\ result.value = 4329999
    /\ sensor.cls = "tile tile--amber"

\* the end-to-end scenario: station "seagrass", long window, a feed serving
\* 2025-01-01T00:00:00.000Z,3.4 and 2025-01-02T00:00:00.000Z,3.6, evaluated at
\* 2025-01-02T00:10:00Z
SeagrassScenario ==
    /\ sensor.step = "done"
    /\ sensor.s.id = "seagrass"
    /\ sensor.windowKey = "15d"
    /\ srcLines = <<"jan1lf", "jan2">>
    /\ evalAt = MsPerDay + 600000

\* C13 as stated: in the scenario the result is a Reading with value 3.6 and
\* stale = false, classified Amber against the 3.0/3.3 thresholds.
C13_ReadingAmber ==
    SeagrassScenario =>
       /\ ~result.error
       /\ result.value = 3600000
       /\ ~result.stale
       /\ sensor.cls = "tile tile--amber"

\* C13: in the scenario the result is a Reading with value 3.6 and
\* stale = false, classified Red against the 3.0/3.3 thresholds, 3.6 being
\* above the red trigger 3.3.
C13_ReadingRed ==
    SeagrassScenario =>
       /\ ~result.error
       /\ result.value = 3600000
       /\ result.timestamp = TsJan2
       /\ ~result.stale
       /\ sensor.cls = "tile tile--red"

\* the scenario has run to its tile
C13_Witness ==
    /\ SeagrassScenario
    /\ text = TsJan1 \o <<",", "3", ".", "4", "\n">> \o TsJan2 \o <<",", "3", ".", "6">>
    /\ sensor.url = Url.top15d
    /\ result.value = 3600000

\* the per-key feed map stations.json gives the sensor under "values", empty
\* when it gives none
ConfiguredFeeds ==
    IF "values" \in DOMAIN sensor.s /\ sensor.level \in DOMAIN sensor.s.values
    THEN sensor.s.values[sensor.level] ELSE <<>>

\* C14: for a sensor configured with the windowless "turbidity" key only,
\* the long (15d) window resolves to that key's address and the short (6d)
\* window resolves to absent; the short window never resolves to the
\* windowless key or to a 15-day alias.
C14_WindowlessIsLong ==
    sensor.step \notin {"none", "resolve"} =>
       /\ DOMAIN ConfiguredFeeds = {"turbidity"} =>
             /\ sensor.windowKey = "15d" => sensor.url = ConfiguredFeeds.turbidity
             /\ sensor.windowKey = "6d" => sensor.url = <<>>
       /\ sensor.windowKey = "6d" =>
             /\ sensor.url \notin
                  {ConfiguredFeeds[k] :
                     k \in DOMAIN ConfiguredFeeds
                           \cap {"turbidity", "turbidity_15d", "turbidity15", "turbidity_15",
                                 "turbidity15d", "turbidity_15day", "turbidity15day"}}
             /\ (sensor.url = <<>>) <=>
                   DOMAIN ConfiguredFeeds
                   \cap {"turbidity_6d", "turbidity6", "turbidity_6", "turbidity6d",
                         "turbidity_6day", "turbidity6day"} = {}

\* a sensor with the windowless key only, resolved for the short window: no
\* address, and its tile says so
C14_Witness ==
    /\ sensor.step = "done"
    /\ sensor.s.id = "grayling"
    /\ DOMAIN ConfiguredFeeds = {"turbidity"}
    /\ sensor.windowKey = "6d"
    /\ sensor.url = <<>>
    /\ result.error
    /\ result.reason = "missing turbidity 6d URL"

-----------------------------------------------------------------------------
(* The station pipeline: the overall severity of one station, as each      *)
(* iteration that colours the map marker derives it from what the feeds of *)
(* the station's sensors returned.                                          *)

\* app.js (first iteration): classifyTurbidity(value), placeholder triggers
classifyTurbidityDraft(value) ==
    IF value >= 10 * Micro THEN "red"
    ELSE IF value >= 5 * Micro THEN "amber"
    ELSE "green"

\* app.js (first iteration): the summary renderTurbidityTiles returns for one
\* station, from what fetchLatestFromEagleDataUrl returned for each level
latestByStation(latestOf, now) ==
    [levels |-> [l \in DOMAIN latestOf |->
                   IF latestOf[l] = Null THEN [ok |-> FALSE]
                   ELSE [ok |-> TRUE, value |-> latestOf[l].value,
                         timestamp |-> latestOf[l].timestamp,
                         stale |-> isStaleDual(latestOf[l].timestamp, now)]]]

\* app.js (first iteration): stationStatus(stationId).status
stationStatus(rec) ==
    LET rank == [red |-> 3, amber |-> 2, green |-> 1, unknown |-> 0]
        okLevels == {l \in DOMAIN rec.levels : rec.levels[l].ok}
        classes == {classifyTurbidityDraft(rec.levels[l].value) : l \in okLevels}
        worst == IF classes = {} THEN "unknown"
                 ELSE CHOOSE c \in classes : \A d \in classes : rank[d] <= rank[c]
        anyError == \E l \in DOMAIN rec.levels : ~rec.levels[l].ok
        anyStale == \E l \in okLevels : rec.levels[l].stale
    IN IF anyError /\ worst = "unknown" THEN "error"
       ELSE IF anyStale THEN "stale"
       ELSE worst

\* app.js (first iteration): styleFor(status), the marker's fill colour
styleFor(status) ==
    IF status \in {"red", "amber", "green"} THEN status ELSE "gray"

\* app.js (second iteration): turbidityClass(value)
turbidityClass(value) ==
    IF value >= 10 * Micro THEN "red"
    ELSE IF value >= 5 * Micro THEN "amber"
    ELSE "green"

\* app.js (second iteration): worstClass(classes)
worstClass(classes) ==
    IF "red" \in classes THEN "red"
    ELSE IF "amber" \in classes THEN "amber"
    ELSE IF "green" \in classes THEN "green"
    ELSE "gray"

\* app.js (second iteration): buildLatestTurbidityIndex, out[s.id].worst
turbIndexWorst(latestOf) ==
    LET classes == {turbidityClass(latestOf[l].value) :
                      l \in {k \in DOMAIN latestOf : latestOf[k] # Null}}
    IN IF classes # {} THEN worstClass(classes) ELSE "gray"

\* what a sensor's feed returned: no reading, or a reading of 3.6, 8.5 or
\* 16.5 FNU that is a day and ten minutes or ten minutes old
StationReadings ==
    {Null} \cup {[timestamp |-> t, value |-> v] :
                   t \in {TsJan1, TsJan2}, v \in {3600000, 8500000, 16500000}}

InitStation ==
    /\ program = "snapshot"
    /\ srcLines = <<>>
    /\ text = <<>>
    /\ latest = Pending
    /\ result = Pending
    /\ evalAt = 0
    /\ sensor = NoSensor
    /\ \E top \in StationReadings, bottom \in StationReadings :
         severity = [step |-> "ready", station |-> ConfigB[1],
                     latestOf |-> [top |-> top, bottom |-> bottom],
                     snapshot |-> "", status |-> "", index |-> ""]
    /\ page = "index"
    /\ MainIdle

\* part_002: buildTurbiditySnapshot, perStation[s.id].className
SeveritySnapshot ==
    /\ severity.step = "ready"
    /\ severity.snapshot = ""
    /\ \E tiles \in {[i \in 1..2 |->
                       [stationId |-> severity.station.id,
                        level |-> severity.station.sensors[i],
                        res |-> snapOutcome(severity.latestOf[severity.station.sensors[i]],
                                            BuildNow)]]} :
         severity' = [severity EXCEPT !.snapshot =
                        perStationOf(<<severity.station>>, perSensorOf(tiles))
                           [severity.station.id].className]
    /\ UNCHANGED <<program, srcLines, text, latest, result, evalAt, sensor,
                   mainVars, netVars, domVars>>

\* app.js (first iteration): renderTurbidityTiles' summary, stationStatus
\* and styleFor in initMap
SeverityStatus ==
    /\ severity.step = "ready"
    /\ severity.status = ""
    /\ severity' = [severity EXCEPT !.status =
                      styleFor(stationStatus(latestByStation(severity.latestOf, BuildNow)))]
    /\ UNCHANGED <<program, srcLines, text, latest, result, evalAt, sensor,
                   mainVars, netVars, domVars>>

\* app.js (second iteration): buildLatestTurbidityIndex in initMap
SeverityIndex ==
    /\ severity.step = "ready"
    /\ severity.index = ""
    /\ severity' = [severity EXCEPT !.index = turbIndexWorst(severity.latestOf)]
    /\ UNCHANGED <<program, srcLines, text, latest, result, evalAt, sensor,
                   mainVars, netVars, domVars>>

NextStation == SeveritySnapshot \/ SeverityStatus \/ SeverityIndex

SpecStation == InitStation /\ [][NextStation]_vars

\* the levels of the station whose reading is Ok and not older than 24 hours
\* at the time of the build
FreshLevels ==
    {l \in DOMAIN severity.latestOf :
       /\ severity.latestOf[l] # Null
       /\ severity.latestOf[l].timestamp = TsJan2}

\* the maximum level among the fresh readings, "gray" without any
MaxFreshLevel ==
    IF \E l \in FreshLevels : severity.latestOf[l].value >= 10000000 THEN "red"
    ELSE IF \E l \in FreshLevels : severity.latestOf[l].value >= 5000000 THEN "amber"
    ELSE IF FreshLevels # {} THEN "green"
    ELSE "gray"

\* C15: a station's overall severity is the maximum level (Green < Amber <
\* Red) among its sensor statuses that are Ok and not stale; stale and Error
\* sensors neither raise nor replace it, and without any Ok, non-stale
\* sensor it is "no classification" (gray).
C15_WorstFreshSensor ==
    severity.step = "ready" =>
       /\ severity.snapshot # "" => severity.snapshot = MaxFreshLevel
       /\ severity.status # "" => severity.status = MaxFreshLevel
       /\ severity.index # "" => severity.index = MaxFreshLevel

\* C15 for the snapshot iteration alone (part_002 buildTurbiditySnapshot)
C15_SnapshotIteration ==
    (severity.step = "ready" /\ severity.snapshot # "")
        => severity.snapshot = MaxFreshLevel

-----------------------------------------------------------------------------
(* Requests and addresses *)

\* the addresses of the configurations that lie within the fixed origin and
\* path
PatternUrls == {Url.top6d, Url.top15d, Url.top, Url.bottom}

\* the address configured for sensor (sid, level) in window w
AddressOf(sid, level, w) ==
    getTurbidityUrl(stations[CHOOSE i \in 1..Len(stations) : stations[i].id = sid], level, w)

\* C16: a request is issued only for an address that was resolved and
\* matches the fixed origin/path pattern; a sensor whose address is absent
\* or outside the pattern gets an Error status and no request.
C16_FetchOnlyResolved ==
    /\ \A r \in DOMAIN requests : AddressOf(r[3], r[4], r[2]) \in PatternUrls
    /\ \A el \in {el6, el15} :
         el.build > 0 =>
            \A i \in 1..Len(el.tiles) :
               AddressOf(el.tiles[i].stationId, el.tiles[i].level, el.tiles[i].windowKey)
                    \notin PatternUrls
                  => /\ el.tiles[i].error
                     /\ el.tiles[i].reason \in {"missing turbidity 6d URL",
                                                "missing turbidity 15d URL",
                                                "Unexpected data URL format"}
                     /\ <<el.build, el.tiles[i].windowKey, el.tiles[i].stationId,
                          el.tiles[i].level>> \notin DOMAIN requests

\* a completed build that sent a request for seagrass top and none for
\* seagrass bottom, whose address is outside the pattern
C16_Witness ==
    /\ el15.kind = "tiles"
    /\ <<el15.build, "15d", "seagrass", "top">> \in DOMAIN served
    /\ <<el15.build, "15d", "seagrass", "bottom">> \notin DOMAIN requests
    /\ \E i \in 1..Len(el15.tiles) :
         /\ el15.tiles[i].stationId = "seagrass"
         /\ el15.tiles[i].level = "bottom"
         /\ el15.tiles[i].error
         /\ el15.tiles[i].reason = "Unexpected data URL format"

\* the station of the sensor pipeline with the feed map it stores under
\* "data" stored under "values" instead
ValuesTwin ==
    [id |-> sensor.s.id, name |-> sensor.s.name, sensors |-> sensor.s.sensors,
     values |-> sensor.s.data]

\* C17: a station whose per-sensor feed map is stored under the historical
\* field name "data" is resolved and polled exactly like the same station
\* storing the map under "values": the same feed address, and a request
\* whenever the "values" station gets one.
C17_DataLikeValues ==
    (sensor.step \notin {"none", "resolve"} /\ "data" \in DOMAIN sensor.s) =>
       /\ sensor.url = getTurbidityUrl(ValuesTwin, sensor.level, sensor.windowKey)
       /\ sensor.step = "done" =>
             (result.error /\ result.reason \in {"missing turbidity 6d URL",
                                                "missing turbidity 15d URL"})
                <=> getTurbidityUrl(ValuesTwin, sensor.level, sensor.windowKey) = <<>>

-----------------------------------------------------------------------------
(* Station schema *)

\* the sensor positions the tiles of display el record for station sid
LevelsShown(el, sid) ==
    IF program = "dual"
    THEN [i \in {j \in 1..Len(el.tiles) : el.tiles[j].stationId = sid} |-> el.tiles[i].level]
    ELSE [i \in {j \in 1..Len(el.tiles) : el.tiles[j].station = sid} |-> el.tiles[i].level]

\* C18: a station whose sensor-position list is missing (or is not a list)
\* is treated as having exactly one sensor position, "top": a build records
\* exactly one sensor status per window for it.
C18_DefaultTopSensor ==
    \A el \in IF program = "dual" THEN {el6, el15} ELSE {tilesEl} :
        el.build > 0 =>
           \A i \in 1..Len(stations) :
              "sensors" \notin DOMAIN stations[i] =>
                 /\ Cardinality(DOMAIN LevelsShown(el, stations[i].id)) = 1
                 /\ \A k \in DOMAIN LevelsShown(el, stations[i].id) :
                       LevelsShown(el, stations[i].id)[k] = "top"

\* the snapshot iteration shows a later build with one tile, TOP, for forth,
\* which is configured without a sensor list
C18_Witness ==
    /\ program = "snapshot"
    /\ tilesEl.kind = "tiles"
    /\ tilesEl.build > 1
    /\ \E i \in 1..Len(stations) :
         /\ stations[i].id = "forth"
         /\ "sensors" \notin DOMAIN stations[i]
    /\ \E k \in 1..Len(tilesEl.tiles) :
         tilesEl.tiles[k].station = "forth" /\ tilesEl.tiles[k].level = "top"

-----------------------------------------------------------------------------
(* One dataset for every view *)

\* the builds whose readings the views of the page show: the tile containers
\* and the map (popups, or markers and popups)
BuildsOnView ==
    (IF program = "dual" THEN {el6.build, el15.build, popups.build}
     ELSE {tilesEl.build, mapView.build}) \ {0}

\* C19: every view is rendered from one shared dataset: once a refresh has
\* completed, the tiles and the map (marker colour and popup details) show
\* readings from the same build, at boot and after every later timer tick.
C19_ViewsShareBuild == stations # <<>> => Cardinality(BuildsOnView) <= 1

-----------------------------------------------------------------------------
(* Snapshots are built aside and adopted whole *)

\* what the consumers of the dual-window iteration read
Views == <<el6, el15, popups>>

\* every view that shows readings shows the complete result of one build
\* that has resolved
ViewsComplete ==
    /\ \A el \in {el6, el15} :
         el.build > 0 =>
            /\ builds[el.build].state = "resolved"
            /\ Len(el.tiles) = Len(workOf(stations))
            /\ el.build = popups.build
    /\ popups.build > 0 =>
         /\ builds[popups.build].state = "resolved"
         /\ \A k \in 1..Len(workOf(stations)) :
              \A w \in {"6d", "15d"} :
                 workOf(stations)[k].level
                    \in DOMAIN popups.summary[workOf(stations)[k].s.id].byWindow[w]

\* a step leaves what a view shows of a build as it is, and the views switch
\* to another build together
ViewsSwitchWhole ==
    /\ \A i \in 1..3 :
         (Views[i].build > 0 /\ Views'[i].build = Views[i].build) => Views'[i] = Views[i]
    /\ popups'.build # popups.build =>
         /\ el6'.build = popups'.build
         /\ el15'.build = popups'.build

\* C20: a refresh builds new tile and summary structures and never changes
\* those built before, and what consumers read switches from one complete
\* snapshot to the next as a whole: in no reachable state do they see a
\* partially built or partially updated snapshot.
C20_WholeSnapshots == []ViewsComplete /\ [][ViewsSwitchWhole]_vars

\* the views show a complete build while another build is half way through
\* its 15-day loop
C20_Witness ==
    /\ program = "dual"
    /\ el15.kind = "tiles"
    /\ popups.build = el15.build
    /\ \E b \in DOMAIN builds :
         /\ builds[b].state = "running"
         /\ b # el15.build
         /\ builds[b].tasks["15d"].tiles # <<>>
         /\ Len(builds[b].tasks["15d"].tiles) < Len(workOf(stations))

-----------------------------------------------------------------------------
(* Overlapping builds *)

\* the summary entry st is what the request outcome o leads to
Reflects(st, o) ==
    IF o.kind = "text" /\ HasDataLine(o.body)
    THEN st.ok /\ st.timestamp = LastDataLine(o.body).ts
    ELSE /\ ~st.ok
         /\ st.reason = (IF o.kind = "network" THEN "Failed to fetch"
                         ELSE IF o.kind = "http" THEN "Fetch failed: 500"
                         ELSE IF o.kind = "body" THEN "network error"
                         ELSE "no data lines found")

\* a step never cancels a running build, a tick leaves the running builds
\* and their requests as they are, and the page changes to build b exactly
\* when b completes, every status then being the one b's own request led to
OverlapStep ==
    /\ \A b \in DOMAIN builds :
         /\ builds[b].state = "running" => builds'[b].state \in {"running", "resolved"}
         /\ (builds[b].state = "running" /\ nextBuild' # nextBuild) =>
               /\ builds'[b] = builds[b]
               /\ \A w \in DOMAIN builds[b].tasks :
                    awaited(b, w, builds[b].tasks[w], workOf(stations)) \subseteq DOMAIN requests'
         /\ (builds[b].state # "resolved" /\ builds'[b].state = "resolved") =>
               /\ popups'.build = b /\ el6'.build = b /\ el15'.build = b
               /\ \A r \in DOMAIN served' :
                    r[1] = b => Reflects(popups'.summary[r[3]].byWindow[r[2]][r[4]], served'[r])
    /\ popups'.build # popups.build =>
         /\ builds[popups'.build].state # "resolved"
         /\ builds'[popups'.build].state = "resolved"

\* C21: a tick that starts a build while an earlier one is running does not
\* cancel the earlier one; each goes on until it completes, and the snapshot
\* on the page after both have completed is that of the build that completed
\* last, whole and not merged sensor by sensor.
C21_LastWriterWins == [][OverlapStep]_vars

\* two builds overlapped, the later one completed first and the earlier one,
\* with a request of its own served, is on the page
C21_Witness ==
    /\ program = "dual"
    /\ builds[2].state = "resolved"
    /\ builds[3].state = "resolved"
    /\ popups.build = 2 /\ el6.build = 2 /\ el15.build = 2
    /\ \E r \in DOMAIN served : r[1] = 2

-----------------------------------------------------------------------------
(* The two windows of a refresh are joined *)

\* C22: the 6-day and the 15-day build of a refresh start together and are
\* joined: while either of them is unfinished both loops exist with their
\* requests out, and neither container shows tiles of the refresh nor have
\* the popups been given its summary.
C22_WindowsJoined ==
    program = "dual" =>
       \A b \in DOMAIN builds :
          builds[b].state = "running" =>
             /\ DOMAIN builds[b].tasks = {"6d", "15d"}
             /\ \E w \in {"6d", "15d"} : builds[b].tasks[w].i <= Len(workOf(stations))
             /\ \A w \in {"6d", "15d"} :
                  awaited(b, w, builds[b].tasks[w], workOf(stations)) \subseteq DOMAIN requests
             /\ el6.build # b /\ el15.build # b /\ popups.build # b

\* the 6-day loop of a refresh has finished with tiles to show, its 15-day
\* loop waits for a response, and the containers show "Loading"
C22_Witness ==
    /\ program = "dual"
    /\ \E b \in DOMAIN builds :
         /\ builds[b].state = "running"
         /\ builds[b].tasks["6d"].i > Len(workOf(stations))
         /\ builds[b].tasks["6d"].tiles # <<>>
         /\ builds[b].tasks["15d"].i <= Len(workOf(stations))
         /\ el6.kind = "loading" /\ el15.kind = "loading"

-----------------------------------------------------------------------------
(* No retry within a build *)

\* C23: within one build each (station, sensor position, window) tuple
\* causes at most one fetch request; a feed that failed or returned no data
\* is not requested again in that build.
C23_OneRequestPerSensor ==
    /\ \A r \in DOMAIN requests : requests[r] <= 1
    /\ \A r \in DOMAIN served :
         (builds[r[1]].state = "running"
             /\ (served[r].kind # "text" \/ ~HasDataLine(served[r].body))) =>
            \A w \in DOMAIN builds[r[1]].tasks :
               r \notin awaited(r[1], w, builds[r[1]].tasks[w], workOf(stations))

\* a build has completed in which one request failed and another returned
\* no data, each sent once
C23_Witness ==
    /\ OnDisplay > 0
    /\ \E r \in DOMAIN served :
         r[1] = OnDisplay /\ served[r].kind \in {"network", "http"} /\ requests[r] = 1
    /\ \E r \in DOMAIN served :
         r[1] = OnDisplay /\ served[r] = [kind |-> "text", body |-> <<>>] /\ requests[r] = 1

-----------------------------------------------------------------------------
(* Failures heal on the next refresh *)

\* the refresh timer exists from the first completed build on and its
\* callback can fire whatever the feeds did
TimerAlive ==
    /\ popups.build > 0 => timer = 1
    /\ (timer > 0 /\ nextBuild <= MaxBuilds) => ENABLED Tick

\* the page goes over to another build: a sensor the popups showed in error
\* is Ok in popups and tiles if its feed has now returned a parseable reading
HealStep ==
    /\ timer' >= timer
    /\ popups'.build # popups.build =>
         \A r \in DOMAIN served' :
            (/\ r[1] = popups'.build
             /\ r[3] \in DOMAIN popups.summary
             /\ r[4] \in DOMAIN popups.summary[r[3]].byWindow[r[2]]
             /\ ~popups.summary[r[3]].byWindow[r[2]][r[4]].ok
             /\ served'[r].kind = "text"
             /\ HasDataLine(served'[r].body)
             /\ LastDataLine(served'[r].body).numeric) =>
               /\ popups'.summary[r[3]].byWindow[r[2]][r[4]].ok
               /\ \A el \in {el6', el15'} :
                    \A i \in 1..Len(el.tiles) :
                       (/\ el.tiles[i].stationId = r[3]
                        /\ el.tiles[i].level = r[4]
                        /\ el.tiles[i].windowKey = r[2]) => ~el.tiles[i].error

\* C24: a sensor that was Error in one refresh cycle is Ok in the next
\* cycle's snapshot whenever its feed then returns a parseable reading; no
\* error is carried from one cycle into the next, and the refresh timer
\* goes on firing after a cycle in which feeds failed.
C24_ErrorsHeal == []TimerAlive /\ [][HealStep]_vars

\* the refresh before recorded an Error for a sensor whose request failed,
\* and the refresh on the page shows that sensor Ok
C24_Witness ==
    /\ program = "dual"
    /\ popups.build = 3
    /\ builds[2].state = "running"
    /\ \E i \in 1..Len(builds[2].tasks["15d"].tiles) :
         \E t \in {builds[2].tasks["15d"].tiles[i]} :
            /\ t.error
            /\ t.reason \in {"Failed to fetch", "Fetch failed: 500"}
            /\ popups.summary[t.stationId].byWindow["15d"][t.level].ok

-----------------------------------------------------------------------------
(* A reading is classified in the window of its feed *)

\* the window of the feed the sensor's address was configured for: the key
\* it is stored under names it, the windowless key counting as 15-day
FeedWindow ==
    LET key == CHOOSE k \in DOMAIN ConfiguredFeeds : ConfiguredFeeds[k] = sensor.url
    IN IF key \in {"turbidity_6d", "turbidity6", "turbidity_6", "turbidity6d",
                   "turbidity_6day", "turbidity6day"}
       THEN "6d" ELSE "15d"

\* C25: every Ok tile is classified with the window key its feed was
\* resolved with: the address is one configured for that window, the tile
\* carries that window, and its class is the one the triggers of that window
\* give, never that of the other window.
C25_ClassifiedInOwnWindow ==
    Classified =>
       /\ \E k \in DOMAIN ConfiguredFeeds : ConfiguredFeeds[k] = sensor.url
       /\ FeedWindow = sensor.windowKey
       /\ result.windowKey = FeedWindow
       /\ \A t \in Triggers :
            (toLowerCase(sensor.s.id) = t.id /\ t.w = FeedWindow) =>
               sensor.cls = (IF result.value >= t.red THEN "tile tile--red"
                             ELSE IF result.value >= t.amber THEN "tile tile--amber"
                             ELSE "tile tile--green")

\* a reading of 4.0 from the 6-day feed of seagrass, Amber by the 6-day
\* triggers where the 15-day triggers would give Red
C25_Witness ==
    /\ Classified
    /\ sensor.s.id = "seagrass"
    /\ sensor.url = Url.top6d
    /\ FeedWindow = "6d"
    /\ result.value = 4000000
    /\ sensor.cls = "tile tile--amber"

-----------------------------------------------------------------------------
(* The classifier on a table entry as it might be written: the triggers in *)
(* either order, or one of them not a finite number.                       *)

\* the triggers an entry may give, in millionths, and the values classified
EntryTriggers == {Finite(3000000), Finite(3300000), Finite(4000000), Finite(4330000), NotFinite}

EntryValues == {2900000, 3000000, 3200000, 3300000, 3600000, 4000000, 4330000, 5000000}

InitEntry ==
    /\ program = "dual"
    /\ srcLines = <<>>
    /\ text = <<>>
    /\ latest = Pending
    /\ result = Pending
    /\ evalAt = 0
    /\ \E a \in EntryTriggers, r \in EntryTriggers, v \in EntryValues :
         sensor = [step |-> "entry", th |-> [amber |-> a, red |-> r], value |-> v,
                   cls |-> "", exchanged |-> ""]
    /\ severity = NoSeverity
    /\ page = "index"
    /\ MainIdle

\* the value is classified against the entry, and against the entry with
\* its triggers exchanged
EntryClassify ==
    /\ sensor.step = "entry"
    /\ sensor' = [sensor EXCEPT
                    !.step = "classified",
                    !.cls = classifyEntry(sensor.th, sensor.value),
                    !.exchanged = classifyEntry([amber |-> sensor.th.red,
                                                 red |-> sensor.th.amber], sensor.value)]
    /\ UNCHANGED <<program, srcLines, text, latest, result, evalAt, severity,
                   mainVars, netVars, domVars>>

NextEntry == EntryClassify

SpecEntry == InitEntry /\ [][NextEntry]_vars

C26_WitnessNotFinite ==
    /\ sensor.step = "classified"
    /\ sensor.th = [amber |-> Finite(3000000), red |-> NotFinite]
    /\ sensor.value = 5000000
    /\ sensor.cls = "neutral"

-----------------------------------------------------------------------------
(* Resolution order of the Station Feed Resolver *)

\* the keys of the sensor's feed map that name the window it is resolved for
WindowAliases ==
    DOMAIN ConfiguredFeeds
    \cap (IF sensor.windowKey = "6d"
          THEN {"turbidity_6d", "turbidity6", "turbidity_6", "turbidity6d",
                "turbidity_6day", "turbidity6day"}
          ELSE {"turbidity_15d", "turbidity15", "turbidity_15", "turbidity15d",
                "turbidity_15day", "turbidity15day"})

\* C27: the resolver tries the aliases of the window before the generic
\* key: for the long window the address of a 15-day alias is returned
\* whenever one is configured, the windowless "turbidity" key only when none
\* is, and without any candidate key the result is absent, which is a result
\* and not a failure of the resolver.
C27_AliasesBeforeFallback ==
    sensor.step \in {"fetch", "parse", "record", "render", "done"} =>
       /\ WindowAliases # {} =>
             /\ sensor.url \in {ConfiguredFeeds[k] : k \in WindowAliases}
             /\ "turbidity" \in DOMAIN ConfiguredFeeds => sensor.url # ConfiguredFeeds.turbidity
       /\ (WindowAliases = {} /\ sensor.windowKey = "15d"
              /\ "turbidity" \in DOMAIN ConfiguredFeeds) =>
             sensor.url = ConfiguredFeeds.turbidity
       /\ (WindowAliases = {}
              /\ (sensor.windowKey = "6d" \/ "turbidity" \notin DOMAIN ConfiguredFeeds)) =>
             /\ sensor.url = <<>>
             /\ sensor.step \in {"render", "done"}

\* a sensor with a 15-day alias and the windowless key, resolved for the long
\* window to the alias's address
C27_Witness ==
    /\ sensor.step = "done"
    /\ sensor.windowKey = "15d"
    /\ {"turbidity15", "turbidity"} \subseteq DOMAIN ConfiguredFeeds
    /\ sensor.url = ConfiguredFeeds.turbidity15
    /\ sensor.url # ConfiguredFeeds.turbidity

\* a sensor without any feed key, resolved for the long window: absent
C27_WitnessAbsent ==
    /\ sensor.step = "done"
    /\ sensor.windowKey = "15d"
    /\ DOMAIN ConfiguredFeeds = {}
    /\ sensor.url = <<>>

-----------------------------------------------------------------------------
(* Which surviving line the Feed Parser takes *)

\* what the parser of the program returns for a body that is the one line
ParseOfLine(name) ==
    IF program = "dual" THEN latestFromText(JoinLines(<<name>>))
    ELSE parseEagleCsvText(JoinLines(<<name>>))

\* the data line of the body that is greatest as a string, trimmed
LexLastLine ==
    srcLines[CHOOSE i \in DataIdx(srcLines) :
               \A j \in DataIdx(srcLines) :
                  ~LexLess(Trim(FeedLine[srcLines[i]].raw), Trim(FeedLine[srcLines[j]].raw))]

\* the data lines of the body come in ascending order
Ascending ==
    \A i, j \in DataIdx(srcLines) :
       i < j => ~LexLess(Trim(FeedLine[srcLines[j]].raw), Trim(FeedLine[srcLines[i]].raw))

\* C28 as stated: among the lines that survive trimming and the
\* timestamp-prefix filter, the Feed Parser takes the lexicographically last
\* line as the most recent reading.
C28_LexicographicallyLast ==
    (latest # Pending /\ HasDataLine(srcLines)) => latest = ParseOfLine(LexLastLine)

\* C28: among the lines that survive trimming and the timestamp-prefix
\* filter, the Feed Parser takes the line that comes last in the text, which
\* is the lexicographically last one when the lines are in ascending order.
C28_LastInText ==
    (latest # Pending /\ HasDataLine(srcLines)) =>
       /\ latest = ParseOfLine(srcLines[CHOOSE i \in DataIdx(srcLines) :
                                          \A j \in DataIdx(srcLines) : j <= i])
       /\ Ascending => latest = ParseOfLine(LexLastLine)

\* a body whose last data line is not its greatest: the reading of 1 January
\* is returned although the body has a line of 2 January before it
C28_Witness ==
    /\ latest # Pending
    /\ srcLines = <<"jan2", "jan1">>
    /\ LexLastLine = "jan2"
    /\ ~Ascending
    /\ latest = ParseOfLine("jan1")
    /\ latest # ParseOfLine("jan2")

-----------------------------------------------------------------------------
(* The class of a tile, for a tile with any combination of fields, in the  *)
(* three iterations that render tiles.                                      *)

\* part_001: tileClassFor(t), with the placeholder triggers
tileClassForDraft(t) ==
    IF t.error THEN "tile tile--error"
    ELSE IF t.stale THEN "tile tile--stale"
    ELSE CASE classifyTurbidityDraft(t.value) = "red" -> "tile tile--red"
           [] classifyTurbidityDraft(t.value) = "amber" -> "tile tile--amber"
           [] classifyTurbidityDraft(t.value) = "green" -> "tile tile--green"

\* tiles with every combination of the error flag, the stale flag and a
\* value below, between and above the triggers
TileInputs ==
    [error : BOOLEAN, stale : BOOLEAN, value : {3000000, 4000000, 5000000, 12000000},
     stationId : {"seagrass", "offshore"}, windowKey : {"6d", "15d"}]

InitTile ==
    /\ program = "dual"
    /\ srcLines = <<>>
    /\ text = <<>>
    /\ latest = Pending
    /\ result \in TileInputs
    /\ evalAt = 0
    /\ sensor = [step |-> "tile", cls |-> <<>>]
    /\ severity = NoSeverity
    /\ page = "index"
    /\ MainIdle

\* the tile is rendered by each iteration; the snapshot iteration reads the
\* sensor result, whose ok flag is the opposite of the error flag
TileRender ==
    /\ sensor.step = "tile"
    /\ sensor' = [step |-> "shown",
                  cls |-> [dual |-> tileClassFor(result),
                           draft |-> tileClassForDraft(result),
                           snapshot |-> tileCssClassFromSensorResult(
                                           [ok |-> ~result.error, stale |-> result.stale,
                                            value |-> result.value])]]
    /\ UNCHANGED <<program, srcLines, text, latest, result, evalAt, severity,
                   mainVars, netVars, domVars>>

NextTile == TileRender

SpecTile == InitTile /\ [][NextTile]_vars

\* the colour the triggers give the tile's value: those of the site and
\* window (none for offshore) in the dual-window iteration, 5 and 10 in the
\* other two
ColourOf ==
    LET by(amber, red) == IF result.value >= red THEN "red"
                          ELSE IF result.value >= amber THEN "amber" ELSE "green"
        own == {t \in Triggers : t.id = result.stationId /\ t.w = result.windowKey}
    IN [dual |-> IF own = {} THEN "neutral"
                 ELSE LET t == CHOOSE t \in own : TRUE IN by(t.amber, t.red),
        other |-> by(5000000, 10000000)]

\* C29: the state of a tile follows the priority error > stale > threshold
\* colour: a tile with an error is shown as error whatever its other
\* fields, a stale tile without error as stale whatever its value, and only
\* a tile that is neither is shown with the classification of its value.
\* The snapshot iteration shows error and stale alike in gray.
C29_ErrorStaleColour ==
    sensor.step = "shown" =>
       /\ result.error =>
             /\ sensor.cls.dual = "tile tile--error"
             /\ sensor.cls.draft = "tile tile--error"
             /\ sensor.cls.snapshot = "tile gray"
       /\ (~result.error /\ result.stale) =>
             /\ sensor.cls.dual = "tile tile--stale"
             /\ sensor.cls.draft = "tile tile--stale"
             /\ sensor.cls.snapshot = "tile gray"
       /\ (~result.error /\ ~result.stale) =>
             /\ \E k \in 1..4 :
                  /\ ColourOf.dual = <<"red", "amber", "green", "neutral">>[k]
                  /\ sensor.cls.dual = <<"tile tile--red", "tile tile--amber",
                                         "tile tile--green", "tile tile--neutral">>[k]
             /\ \E k \in 1..3 :
                  /\ ColourOf.other = <<"red", "amber", "green">>[k]
                  /\ sensor.cls.draft = <<"tile tile--red", "tile tile--amber",
                                          "tile tile--green">>[k]
                  /\ sensor.cls.snapshot = <<"tile red", "tile amber", "tile green">>[k]

\* a tile with an error that is also flagged stale and carries a value above
\* every red trigger: shown as error
C29_Witness ==
    /\ sensor.step = "shown"
    /\ result.error /\ result.stale /\ result.value = 12000000
    /\ result.stationId = "seagrass"
    /\ sensor.cls.dual = "tile tile--error"
    /\ sensor.cls.draft = "tile tile--error"

-----------------------------------------------------------------------------
(* The refresh timer and what starts a build *)

\* the timer exists at most once, only on the index page with the boot build
\* completed and its result on the page or replaced by a later one; a build
\* has started only with the configuration loaded, and later builds only
\* with the timer
TimerOnce ==
    /\ timer <= 1
    /\ timer = 1 =>
          /\ page = "index"
          /\ loads = 1
          /\ builds[1].state = "resolved"
          /\ OnDisplay >= 1
          /\ program = "snapshot" => mapView.build = 1
    /\ \A b \in DOMAIN builds :
          builds[b].state # "unused" =>
             /\ page = "index"
             /\ loads = 1
             /\ pc # "load"
             /\ b > 1 => timer = 1

\* the timer is created in the step in which the boot build completes and is
\* rendered, and a build starts in the step that loads the configuration
\* (the boot build) or in a tick of the timer
TimerStep ==
    /\ timer' # timer =>
          /\ timer = 0 /\ timer' = 1
          /\ builds[1].state # "resolved" /\ builds'[1].state = "resolved"
          /\ IF program = "dual"
             THEN el6'.build = 1 /\ el15'.build = 1 /\ popups'.build = 1
             ELSE tilesEl'.build = 1 /\ mapView'.build = 1
    /\ \A b \in DOMAIN builds :
          (builds[b].state = "unused" /\ builds'[b].state # "unused") =>
             \/ b = 1 /\ pc = "load" /\ loads' = loads + 1 /\ timer = 0
             \/ b > 1 /\ timer = 1 /\ nextBuild = b /\ nextBuild' = b + 1

\* C30: the refresh timer is created at most once per page load, only on the
\* index page and only after the boot build has completed and been rendered;
\* builds are started by boot or by a tick of the timer only, and never
\* before the station configuration has loaded.
C30_TimerAfterBoot == []TimerOnce /\ [][TimerStep]_vars

\* the timer has fired twice: two refresh builds run beside each other
C30_Witness ==
    /\ timer = 1
    /\ builds[1].state = "resolved"
    /\ builds[2].state = "running"
    /\ builds[3].state = "running"

=============================================================================
